---- MODULE Spec2Model ----
(***************************************************************************)
(* Model of dashboard-backend/app/main.py: the read-through dataset cache, *)
(* the CSV loaders, the HTTP handlers and the analysis calculators.        *)
(*                                                                         *)
(* Units.  Time is counted in whole hours since 2012-01-01 00:00 (naive).  *)
(* Power is in kW.  Energy is in kW-minutes (kWmin): one kWh is 60 kWmin,  *)
(* so that "power x 10 minutes" is an integer.                             *)
(***************************************************************************)
EXTENDS Integers, Sequences, FiniteSets, TLC

VARIABLES
    files,      \* the CSV files on disk, per dataset key
    openoa,     \* OPENOA_AVAILABLE: whether the import block succeeded
    cache,      \* _data_cache: dataset key -> reference to a DataFrame, or None
    heap,       \* the live DataFrame objects: reference -> table
    loads,      \* history: how often each loader function has been invoked
    last,       \* the outcome of the request handled last
    tasks       \* the concurrent callers of get_cached_data (race specification)

vars == <<files, openoa, cache, heap, loads, last, tasks>>

(***************************************************************************)
(* Bounds of the model.                                                    *)
(***************************************************************************)
MaxRows == 2        \* rows per CSV file in the process-level specification
MaxLoads == 2       \* cap of the loader-invocation history counter
MaxScada == 3       \* SCADA rows in the energy specification
MaxEra == 2         \* reanalysis rows in the long-term-correction specification
MaxDated == 2       \* SCADA rows in the calendar-month specification

(***************************************************************************)
(* Values.                                                                 *)
(***************************************************************************)
None == "None"
NaT == -999999      \* pandas.NaT, the marker of a timestamp that did not parse
NaN == -888888      \* float('nan'), the mean of no values

Keys == {"scada", "plant", "asset", "era5", "merra2"}

MinPerHour == 60
IntervalMin == 10
HoursPerDay == 24

\* os.path.join(LA_HAUTE_BORNE_PATH, <file name>)
PathOf(key) ==
    CASE key = "scada"  -> "la_haute_borne/la-haute-borne-data-2014-2015.csv"
      [] key = "plant"  -> "la_haute_borne/plant_data.csv"
      [] key = "asset"  -> "la_haute_borne/la-haute-borne_asset_table.csv"
      [] key = "era5"   -> "la_haute_borne/era5_wind_la_haute_borne.csv"
      [] key = "merra2" -> "la_haute_borne/merra2_la_haute_borne.csv"

(***************************************************************************)
(* Outcomes of a call: a returned value or a raised exception.             *)
(***************************************************************************)
NoExc == [type |-> None, msg |-> <<>>]
Ok(v) == [ok |-> TRUE, val |-> v, exc |-> NoExc]
Raise(type, msg) ==
    [ok |-> FALSE, val |-> [cols |-> {}, rows |-> <<>>], exc |-> [type |-> type, msg |-> msg]]

(***************************************************************************)
(* Tables (DataFrames): a set of column names and a sequence of rows, each *)
(* row a record over the columns.                                          *)
(***************************************************************************)
Table(cols, rows) == [cols |-> cols, rows |-> rows]

\* rows[keep]: the rows whose flag in the boolean sequence keep is set
RECURSIVE KeepRows(_, _)
KeepRows(rows, keep) ==
    IF rows = <<>> THEN <<>>
    ELSE IF Len(rows) = 1 THEN (IF keep[1] THEN rows ELSE <<>>)
    ELSE LET half == Len(rows) \div 2
         IN  KeepRows(SubSeq(rows, 1, half), SubSeq(keep, 1, half))
                 \o KeepRows(SubSeq(rows, half + 1, Len(rows)),
                             SubSeq(keep, half + 1, Len(rows)))

\* df[col] = value(row): the row with column col set
WithField(row, col, v) ==
    [c \in DOMAIN row \cup {col} |-> IF c = col THEN v ELSE row[c]]

(***************************************************************************)
(* pandas.to_datetime(cell, utc=..., errors='coerce') followed, for utc,   *)
(* by tz_localize(None).  A cell of the file is text: either a timestamp   *)
(* with wall-clock time t and an embedded zone offset off (hours), or text *)
(* that is no timestamp.                                                   *)
(***************************************************************************)
GoodTs(t, off) == [valid |-> TRUE, t |-> t, off |-> off]
BadTs == [valid |-> FALSE, t |-> 0, off |-> 0]

to_datetime(cell, utc) ==
    IF ~cell.valid THEN NaT
    ELSE IF utc THEN cell.t - cell.off
    ELSE cell.t
\* the parse followed by a dropna on the timestamp column
ParseColumnDropNaT(f, col, utc) ==
    LET parsed == [i \in 1..Len(f.rows) |->
                      WithField(f.rows[i], col, to_datetime(f.rows[i][col], utc))]
    IN  Table(f.cols, KeepRows(parsed, [i \in 1..Len(parsed) |-> parsed[i][col] # NaT]))

ParseColumn(f, col, utc) ==
    Table(f.cols, [i \in 1..Len(f.rows) |->
                      WithField(f.rows[i], col, to_datetime(f.rows[i][col], utc))])
\* a loader that reports every failure of the read as a missing file
ReadTimestampedOrNotFound(f, col, utc) ==
    IF ~f.readable \/ col \notin f.cols
    THEN Raise("FileNotFoundError", <<"Data", " file not found: ", "la_haute_borne">>)
    ELSE Ok(ParseColumn(f, col, utc))

\* pd.read_csv followed by the parse of the timestamp column
ReadTimestamped(f, col, utc) ==
    IF ~f.readable THEN Raise("ParserError", <<"Error tokenizing data">>)
    ELSE IF col \notin f.cols THEN Raise("KeyError", <<"'", col, "'">>)
    ELSE Ok(ParseColumn(f, col, utc))

NotFound(label, key) ==
    Raise("FileNotFoundError", <<label, " file not found: ", PathOf(key)>>)

load_scada_data(f) ==
    IF ~f.exists THEN NotFound("SCADA", "scada")
    ELSE ReadTimestamped(f, "Date_time", TRUE)

load_plant_data(f) ==
    IF ~f.exists THEN NotFound("Plant", "plant")
    ELSE ReadTimestamped(f, "time_utc", TRUE)

load_asset_data(f) ==
    IF ~f.exists THEN NotFound("Asset", "asset")
    ELSE IF ~f.readable THEN Raise("ParserError", <<"Error tokenizing data">>)
    ELSE Ok(Table(f.cols, f.rows))

load_era5_data(f) ==
    IF ~f.exists THEN NotFound("ERA5", "era5")
    ELSE ReadTimestamped(f, "datetime", FALSE)

load_merra2_data(f) ==
    IF ~f.exists THEN NotFound("MERRA2", "merra2")
    ELSE ReadTimestamped(f, "datetime", FALSE)

\* the loader function each call site passes for a key
LoaderFor(key, fs) ==
    CASE key = "scada"  -> load_scada_data(fs[key])
      [] key = "plant"  -> load_plant_data(fs[key])
      [] key = "asset"  -> load_asset_data(fs[key])
      [] key = "era5"   -> load_era5_data(fs[key])
      [] key = "merra2" -> load_merra2_data(fs[key])

(***************************************************************************)
(* The heap of DataFrame objects.  A reference names the object: the one a *)
(* loader created for a key (by caller n), or a handler's temporary.       *)
(***************************************************************************)
DfRef(key, n) == [k |-> key, n |-> n]
NoRef == DfRef(None, 0)

Alloc(h, ref, t) ==
    [r \in DOMAIN h \cup {ref} |-> IF r = ref THEN t ELSE h[r]]

FreshTmp(h) ==
    DfRef("tmp", CHOOSE n \in 1..(Cardinality(DOMAIN h) + 1) :
                    /\ DfRef("tmp", n) \notin DOMAIN h
                    /\ \A m \in 1..(n - 1) : DfRef("tmp", m) \in DOMAIN h)
\* an assignment where df.copy() stands: the same object under a second name
CopyAliased(h, ref) == [heap |-> h, ref |-> ref]

\* df.copy(): a new object with the same content
Copy(h, ref) ==
    LET new == FreshTmp(h)
    IN  [heap |-> Alloc(h, new, h[ref]), ref |-> new]

\* df[mask]: a new object holding the rows whose flag in the mask is set
Filter(h, ref, mask) ==
    LET new == FreshTmp(h)
    IN  [heap |-> Alloc(h, new, Table(h[ref].cols, KeepRows(h[ref].rows, mask))),
         ref |-> new]

\* df[col] = values: the object itself is changed
SetColumn(h, ref, col, values) ==
    [h EXCEPT ![ref] = Table(h[ref].cols \cup {col},
                             [i \in 1..Len(h[ref].rows) |->
                                 WithField(h[ref].rows[i], col, values[i])])]

(***************************************************************************)
(* get_cached_data(key, loader_func), run to completion by one caller.     *)
(* st is the process state [cache, heap, loads]; the result adds the       *)
(* returned reference, or the exception the loader raised.                 *)
(***************************************************************************)
Bump(n) == IF n < MaxLoads THEN n + 1 ELSE n
\* get_cached_data without the membership test of line 84
get_cached_data_always_loads(st, key, fs) ==
    LET r == LoaderFor(key, fs)
        counted == [st.loads EXCEPT ![key] = Bump(@)]
    IN  IF ~r.ok
        THEN [cache |-> st.cache, heap |-> st.heap, loads |-> counted,
              exc |-> r.exc, ref |-> NoRef]
        ELSE [cache |-> [st.cache EXCEPT ![key] = DfRef(key, 0)],
              heap |-> Alloc(st.heap, DfRef(key, 0), r.val),
              loads |-> counted,
              exc |-> NoExc, ref |-> DfRef(key, 0)]

\* get_cached_data keeping an empty table for a key whose loader raised
get_cached_data_keeps_failure(st, key, fs) ==
    IF st.cache[key] # NoRef
    THEN [cache |-> st.cache, heap |-> st.heap, loads |-> st.loads,
          exc |-> NoExc, ref |-> st.cache[key]]
    ELSE LET r == LoaderFor(key, fs)
             counted == [st.loads EXCEPT ![key] = Bump(@)]
         IN  IF ~r.ok
             THEN [cache |-> [st.cache EXCEPT ![key] = DfRef(key, 0)],
                   heap |-> Alloc(st.heap, DfRef(key, 0), Table(fs[key].cols, <<>>)),
                   loads |-> counted,
                   exc |-> r.exc, ref |-> NoRef]
             ELSE [cache |-> [st.cache EXCEPT ![key] = DfRef(key, 0)],
                   heap |-> Alloc(st.heap, DfRef(key, 0), r.val),
                   loads |-> counted,
                   exc |-> NoExc, ref |-> DfRef(key, 0)]

get_cached_data(st, key, fs) ==
    IF st.cache[key] # NoRef
    THEN [cache |-> st.cache, heap |-> st.heap, loads |-> st.loads,
          exc |-> NoExc, ref |-> st.cache[key]]
    ELSE LET r == LoaderFor(key, fs)
             counted == [st.loads EXCEPT ![key] = Bump(@)]
         IN  IF ~r.ok
             THEN [cache |-> st.cache, heap |-> st.heap, loads |-> counted,
                   exc |-> r.exc, ref |-> NoRef]
             ELSE [cache |-> [st.cache EXCEPT ![key] = DfRef(key, 0)],
                   heap |-> Alloc(st.heap, DfRef(key, 0), r.val),
                   loads |-> counted,
                   exc |-> NoExc, ref |-> DfRef(key, 0)]

\* the get_cached_data calls at the head of a handler, in order; the first
\* exception ends the sequence
RECURSIVE Fetch(_, _, _)
Fetch(st, keys, fs) ==
    IF keys = <<>>
    THEN [cache |-> st.cache, heap |-> st.heap, loads |-> st.loads, exc |-> NoExc]
    ELSE LET g == get_cached_data(st, Head(keys), fs)
         IN  IF g.exc # NoExc
             THEN [cache |-> g.cache, heap |-> g.heap, loads |-> g.loads, exc |-> g.exc]
             ELSE Fetch(g, Tail(keys), fs)

(***************************************************************************)
(* Arithmetic of the calculators.  Sums are integers; a mean is the exact  *)
(* rational sum/count, and the mean of no values (den = 0) is NaN.         *)
(***************************************************************************)
RECURSIVE SumSeq(_)
SumSeq(s) ==
    IF s = <<>> THEN 0
    ELSE IF Len(s) = 1 THEN s[1]
    ELSE LET half == Len(s) \div 2
         IN  SumSeq(SubSeq(s, 1, half)) + SumSeq(SubSeq(s, half + 1, Len(s)))

Column(t, col) == [i \in 1..Len(t.rows) |-> t.rows[i][col]]

\* Series.sum()
SumCol(t, col) == SumSeq(Column(t, col))

Rat(n, d) == [num |-> n, den |-> d]

\* Series.mean()
MeanCol(t, col) == Rat(SumCol(t, col), Len(t.rows))

IsNaN(r) == r.den = 0
RatEq(a, b) == ~IsNaN(a) /\ ~IsNaN(b) /\ a.num * b.den = b.num * a.den
RatGt(a, b) == ~IsNaN(a) /\ ~IsNaN(b) /\ a.num * b.den > b.num * a.den
Positive(r) == ~IsNaN(r) /\ r.num > 0

RECURSIVE Gcd(_, _)
Gcd(a, b) == IF b = 0 THEN a ELSE Gcd(b, a % b)

Reduced(r) ==
    IF IsNaN(r) \/ r.num = 0 THEN r
    ELSE LET g == Gcd(IF r.num < 0 THEN -r.num ELSE r.num, r.den)
         IN  Rat(r.num \div g, r.den \div g)

\* a / b for two rationals with b > 0
RatDiv(a, b) == Reduced(Rat(a.num * b.den, a.den * b.num))

\* round(n / d, ...) to the nearest unit, ties to even (Python's round), d > 0
RoundDiv(n, d) ==
    LET q == n \div d
        r == n % d
    IN  IF 2 * r > d \/ (2 * r = d /\ q % 2 = 1) THEN q + 1 ELSE q

\* Series.min() and Series.max() of a timestamp column: NaT cells are skipped,
\* and the result is NaT when nothing is left
Stamps(t, col) == {t.rows[i][col] : i \in 1..Len(t.rows)} \ {NaT}

TsMin(t, col) ==
    IF Stamps(t, col) = {} THEN NaT
    ELSE CHOOSE x \in Stamps(t, col) : \A y \in Stamps(t, col) : x <= y

TsMax(t, col) ==
    IF Stamps(t, col) = {} THEN NaT
    ELSE CHOOSE x \in Stamps(t, col) : \A y \in Stamps(t, col) : x >= y

\* (max - min).days: whole days of the span; NaN when the span is NaT
SpanDays(t, col) ==
    IF TsMin(t, col) = NaT THEN NaN
    ELSE (TsMax(t, col) - TsMin(t, col)) \div HoursPerDay

(***************************************************************************)
(* The long-term correction shared by the AEP and the gross-energy         *)
(* analyses.  x ** 2.5 is kept exactly, as the rational x^5 = (x**2.5)^2.  *)
(***************************************************************************)
Pow5(n) == n * n * n * n * n

\* the power taken of the inverse ratio
Pow25Inverted(x) == Rat(Pow5(x.den), Pow5(x.num))

\* x ** 2.5, kept exactly as its square x ** 5
Pow25(x) == Rat(Pow5(x.num), Pow5(x.den))

\* a float result: the value, or the ZeroDivisionError Python raises
Float(sq) == [sq |-> sq, err |-> None]
ZeroDivision == [sq |-> Rat(0, 0), err |-> "ZeroDivisionError"]

\* (ltm_ws / op_ws) ** 2.5 on Python floats
PowRatio(ltm_ws, op_ws) ==
    IF IsNaN(ltm_ws) \/ IsNaN(op_ws) THEN Float(Rat(0, 0))
    ELSE IF op_ws.num = 0 THEN ZeroDivision
    ELSE Float(Pow25(RatDiv(ltm_ws, op_ws)))

\* the guard letting a zero mean through: op_period_ws >= 0
CorrectionGuardNonNegative(op_ws) == ~IsNaN(op_ws) /\ op_ws.num >= 0

\* the guard of the division: op_period_ws > 0
CorrectionGuard(op_ws) == Positive(op_ws)

\* (ltm_ws / op_period_ws) ** 2.5 if op_period_ws > 0 else 1.0
CorrectionFactor(ltm_ws, op_ws) ==
    IF CorrectionGuard(op_ws) THEN PowRatio(ltm_ws, op_ws) ELSE Float(Rat(1, 1))

\* era5_df[(datetime >= op_start) & (datetime <= op_end)]
InWindow(row, op_start, op_end) ==
    /\ row.datetime # NaT
    /\ op_start # NaT
    /\ op_end # NaT
    /\ row.datetime >= op_start
    /\ row.datetime <= op_end

\* main.py 848-858, in run_aep_analysis
LongTermCorrection(scada, era5) ==
    LET op_start == TsMin(scada, "Date_time")
        op_end == TsMax(scada, "Date_time")
        within == [i \in 1..Len(era5.rows) |-> InWindow(era5.rows[i], op_start, op_end)]
        era5_op == Table(era5.cols, KeepRows(era5.rows, within))
        ltm_ws == MeanCol(era5, "ws_100m")
        op_ws == IF Len(era5_op.rows) > 0 THEN MeanCol(era5_op, "ws_100m") ELSE ltm_ws
    IN  [op_rows |-> Len(era5_op.rows),
         op_period_ws |-> op_ws,
         ltm_ws |-> ltm_ws,
         factor |-> CorrectionFactor(ltm_ws, op_ws)]

\* the operational mean taken over every ERA5 row up to op_end
GrossCorrectionFromStart(scada, era5) ==
    LET op_end == TsMax(scada, "Date_time")
        era5_ltm_ws == MeanCol(era5, "ws_100m")
        era5_op == Table(era5.cols,
                         KeepRows(era5.rows,
                                  [i \in 1..Len(era5.rows) |->
                                      InWindow(era5.rows[i], era5.rows[i].datetime, op_end)]))
        era5_op_ws == IF Len(era5_op.rows) > 0 THEN MeanCol(era5_op, "ws_100m")
                      ELSE era5_ltm_ws
    IN  [op_rows |-> Len(era5_op.rows),
         op_period_ws |-> era5_op_ws,
         ltm_ws |-> era5_ltm_ws,
         factor |-> CorrectionFactor(era5_ltm_ws, era5_op_ws)]

\* main.py 1112-1119, in run_turbine_gross_energy_analysis
GrossLongTermCorrection(scada, era5) ==
    LET era5_ltm_ws == MeanCol(era5, "ws_100m")
        op_start == TsMin(scada, "Date_time")
        op_end == TsMax(scada, "Date_time")
        era5_op == Table(era5.cols,
                         KeepRows(era5.rows,
                                  [i \in 1..Len(era5.rows) |->
                                      InWindow(era5.rows[i], op_start, op_end)]))
        era5_op_ws == IF Len(era5_op.rows) > 0 THEN MeanCol(era5_op, "ws_100m")
                      ELSE era5_ltm_ws
    IN  [op_rows |-> Len(era5_op.rows),
         op_period_ws |-> era5_op_ws,
         ltm_ws |-> era5_ltm_ws,
         factor |-> CorrectionFactor(era5_ltm_ws, era5_op_ws)]

(***************************************************************************)
(* The calendar: Timestamp.year, .month and .to_period('M') of a timestamp *)
(* counted in hours since 2012-01-01.                                      *)
(***************************************************************************)
EpochYear == 2012

IsLeap(y) == (y % 4 = 0 /\ y % 100 # 0) \/ y % 400 = 0

YearLen(y) == IF IsLeap(y) THEN 366 ELSE 365

MonthLen(y, m) ==
    IF m = 2 THEN (IF IsLeap(y) THEN 29 ELSE 28)
    ELSE IF m \in {4, 6, 9, 11} THEN 30
    ELSE 31

RECURSIVE YearFrom(_, _)
YearFrom(day, y) ==
    IF day < YearLen(y) THEN [year |-> y, day |-> day]
    ELSE YearFrom(day - YearLen(y), y + 1)

RECURSIVE MonthFrom(_, _, _)
MonthFrom(day, y, m) ==
    IF day < MonthLen(y, m) THEN m ELSE MonthFrom(day - MonthLen(y, m), y, m + 1)

YearOf(ts) == IF ts = NaT THEN NaN ELSE YearFrom(ts \div HoursPerDay, EpochYear).year

MonthOf(ts) ==
    IF ts = NaT THEN NaN
    ELSE LET yd == YearFrom(ts \div HoursPerDay, EpochYear)
         IN  MonthFrom(yd.day, yd.year, 1)

\* a rolling window of 30 days in place of the calendar month
RollingPeriod(ts) == IF ts = NaT THEN NaT ELSE ts \div (30 * HoursPerDay)

\* .dt.to_period('M'): the calendar month, year * 12 + (month - 1)
PeriodOf(ts) == IF ts = NaT THEN NaT ELSE YearOf(ts) * 12 + (MonthOf(ts) - 1)

RECURSIVE DayFrom(_, _, _)
DayFrom(day, y, m) ==
    IF day < MonthLen(y, m) THEN day + 1 ELSE DayFrom(day - MonthLen(y, m), y, m + 1)

\* Timestamp.isoformat(): 'YYYY-MM-DDTHH:00:00', kept as its four numbers
IsoFormat(ts) ==
    LET yd == YearFrom(ts \div HoursPerDay, EpochYear)
    IN  <<yd.year, MonthFrom(yd.day, yd.year, 1), DayFrom(yd.day, yd.year, 1),
          ts % HoursPerDay>>

\* the days from the epoch to the first day of a monthly period
RECURSIVE MonthStartDay(_)
MonthStartDay(period) ==
    IF period <= EpochYear * 12 THEN 0
    ELSE MonthStartDay(period - 1) + MonthLen((period - 1) \div 12, ((period - 1) % 12) + 1)

\* str() of a monthly period: 'YYYY-MM', kept as its two numbers
MonthStr(period) == <<period \div 12, (period % 12) + 1>>

SeasonOf(ts) ==
    IF ts = NaT THEN "Fall"
    ELSE IF MonthOf(ts) \in {12, 1, 2} THEN "Winter"
    ELSE IF MonthOf(ts) \in {3, 4, 5} THEN "Spring"
    ELSE IF MonthOf(ts) \in {6, 7, 8} THEN "Summer"
    ELSE "Fall"

\* a derived column: the operator applied to column col of every row
MonthCol(t, col) == [i \in 1..Len(t.rows) |-> MonthOf(t.rows[i][col])]
YearCol(t, col) == [i \in 1..Len(t.rows) |-> YearOf(t.rows[i][col])]
PeriodCol(t, col) == [i \in 1..Len(t.rows) |-> PeriodOf(t.rows[i][col])]
SeasonCol(t, col) == [i \in 1..Len(t.rows) |-> SeasonOf(t.rows[i][col])]

(***************************************************************************)
(* Energy totals.  SCADA power is in kW at a 10-minute cadence; the meter  *)
(* reports kWh.  All totals below are in kWmin (1 kWh = 60 kWmin).         *)
(***************************************************************************)
\* the total as mean power times the rows of a full table times the interval
TurbineEnergyFromMean(t) ==
    IF Len(t.rows) = 0 THEN 0
    ELSE (SumCol(t, "P_avg") * (MaxScada + 1) * IntervalMin) \div Len(t.rows)

\* float(df['P_avg'].sum()) * (10/60), main.py 941, 1132, 1280
TurbineEnergy(t) == SumCol(t, "P_avg") * IntervalMin

\* float(scada_df['P_avg'].sum()) taken as kWh, main.py 287, 333, 389, 840
PowerSumAsKwh(t) == SumCol(t, "P_avg") * MinPerHour

\* float(plant_df[col].sum()), in kWh
MeterEnergy(t, col) == SumCol(t, col) * MinPerHour

\* a kWmin amount reported in GWh rounded to `places` decimals: the integer
\* count of 10^-places GWh
KwhPerGwh == 1000000

Pow10(n) == IF n = 0 THEN 1 ELSE IF n = 1 THEN 10 ELSE IF n = 2 THEN 100
            ELSE IF n = 3 THEN 1000 ELSE 10000

RoundGwh(kwmin, places) == RoundDiv(kwmin, MinPerHour * (KwhPerGwh \div Pow10(places)))

\* date_range.days / 365.25 as a rational; NaN when the table has no timestamp
Years(scada) ==
    IF SpanDays(scada, "Date_time") = NaN THEN Rat(0, 0)
    ELSE Rat(SpanDays(scada, "Date_time") * 4, 1461)

Turbines(t) == {t.rows[i].Wind_turbine_name : i \in 1..Len(t.rows)}

NoBody == [none |-> TRUE]
Returned(h, body) == [heap |-> h, exc |-> NoExc, body |-> body]
Raised(h, type, msg) == [heap |-> h, exc |-> [type |-> type, msg |-> msg], body |-> NoBody]

DivZeroMsg == <<"float division by zero">>

(***************************************************************************)
(* run_electrical_losses_analysis, main.py 933-1008                        *)
(***************************************************************************)
ElectricalLoss(turbine_energy, meter_energy) ==
    IF turbine_energy > 0
    THEN [kwmin |-> turbine_energy - meter_energy,
          percent |-> Rat((turbine_energy - meter_energy) * 100, turbine_energy)]
    ELSE [kwmin |-> 0, percent |-> Rat(0, 1)]

\* the months of a table that hold a row: the index of groupby('month')
MonthsOf(t) == {t.rows[i].month : i \in 1..Len(t.rows)} \ {NaT}

\* the rows of a table in one month
InMonth(t, month) ==
    Table(t.cols, KeepRows(t.rows, [i \in 1..Len(t.rows) |-> t.rows[i].month = month]))

\* monthly_losses, main.py 959-975: one entry per month of the SCADA copy, in
\* ascending order, that is also a month of the meter copy; energies in
\* tenths of a MWh, the loss in hundredths of a MWh and of a percent
MonthlyLosses(scada_copy, plant_copy) ==
    LET shared == MonthsOf(scada_copy) \cap MonthsOf(plant_copy)
        months == [k \in 1..Cardinality(shared) |->
                      CHOOSE m \in shared : Cardinality({n \in shared : n < m}) = k - 1]
    IN  [k \in 1..Len(months) |->
            LET t_energy == TurbineEnergy(InMonth(scada_copy, months[k]))
                m_energy == MeterEnergy(InMonth(plant_copy, months[k]), "net_energy_kwh")
            IN  [month |-> MonthStr(months[k]),
                 turbine_energy_mwh |-> RoundDiv(t_energy, MinPerHour * 100),
                 meter_energy_mwh |-> RoundDiv(m_energy, MinPerHour * 100),
                 loss_mwh |-> RoundDiv(t_energy - m_energy, MinPerHour * 10),
                 loss_percent |-> IF t_energy > 0
                                  THEN RoundDiv((t_energy - m_energy) * 10000, t_energy)
                                  ELSE 0]]

run_electrical_losses_analysis(h, scada_df, plant_df) ==
    LET turbine_energy == TurbineEnergy(h[scada_df])
        meter_energy == MeterEnergy(h[plant_df], "net_energy_kwh")
        loss == ElectricalLoss(turbine_energy, meter_energy)
        c1 == Copy(h, scada_df)
        c2 == Copy(c1.heap, plant_df)
        h1 == SetColumn(c2.heap, c1.ref, "month", PeriodCol(c2.heap[c1.ref], "Date_time"))
        h2 == SetColumn(h1, c2.ref, "month", PeriodCol(h1[c2.ref], "time_utc"))
    IN  Returned(h2,
          [turbine_energy_kwmin |-> turbine_energy,
           meter_energy_kwmin |-> meter_energy,
           electrical_loss_kwmin |-> loss.kwmin,
           total_loss_percent |-> RoundDiv(loss.percent.num * 100, loss.percent.den),
           total_loss_gwh |-> RoundGwh(loss.kwmin, 4),
           turbine_energy_gwh |-> RoundGwh(turbine_energy, 3),
           meter_energy_gwh |-> RoundGwh(meter_energy, 3),
           difference_gwh |-> RoundGwh(loss.kwmin, 4),
           monthly_breakdown |-> MonthlyLosses(h2[c1.ref], h2[c2.ref]),
           scada_records |-> Len(h[scada_df].rows),
           meter_records |-> Len(h[plant_df].rows)])

(***************************************************************************)
(* run_aep_analysis, main.py 833-931                                       *)
(***************************************************************************)
run_aep_analysis(h, scada_df, era5_df) ==
    LET scada == h[scada_df]
        era5 == h[era5_df]
        total_energy == PowerSumAsKwh(scada)
        years == Years(scada)
        ltc == LongTermCorrection(scada, era5)
        c == Copy(h, scada_df)
        h1 == SetColumn(c.heap, c.ref, "month", MonthCol(c.heap[c.ref], "Date_time"))
        dated == Stamps(scada, "Date_time") # {}
    IN  IF ltc.factor.err # None THEN Raised(h, ltc.factor.err, DivZeroMsg)
        \* line 870: / years in the monthly loop
        ELSE IF dated /\ ~IsNaN(years) /\ years.num = 0
        THEN Raised(h1, "ZeroDivisionError", DivZeroMsg)
        \* line 890: t_annual / ltm_annual_energy_gwh in the turbine loop
        ELSE IF Turbines(scada) # {} /\ total_energy = 0
        THEN Raised(h1, "ZeroDivisionError", DivZeroMsg)
        \* line 918: int() of the year of a NaT
        ELSE IF Stamps(era5, "datetime") = {}
        THEN Raised(h1, "ValueError", <<"cannot convert float NaN to integer">>)
        ELSE Returned(h1,
               [total_energy_kwmin |-> total_energy,
                years |-> years,
                op_rows |-> ltc.op_rows,
                op_period_ws |-> ltc.op_period_ws,
                ltm_ws |-> ltc.ltm_ws,
                ltm_correction_factor |-> ltc.factor.sq,
                reanalysis_years |-> YearOf(TsMax(era5, "datetime"))
                                       - YearOf(TsMin(era5, "datetime")) + 1,
                total_data_points |-> Len(scada.rows)])

(***************************************************************************)
(* run_turbine_gross_energy_analysis, main.py 1103-1177                    *)
(***************************************************************************)
\* t_df[(P_avg > 10) & (Ws_avg >= 3) & (Ws_avg <= 25)]
NormalOperation(row) == row.P_avg > 10 /\ row.Ws_avg >= 3 /\ row.Ws_avg <= 25

\* scada_df['Wind_turbine_name'] == turbine
TurbineMask(t, turbine) == [i \in 1..Len(t.rows) |-> t.rows[i].Wind_turbine_name = turbine]

OfTurbine(t, turbine) == Table(t.cols, KeepRows(t.rows, TurbineMask(t, turbine)))

GrossTurbine(scada, turbine) ==
    LET t_df == OfTurbine(scada, turbine)
        normal_df == Table(t_df.cols,
                           KeepRows(t_df.rows, [i \in 1..Len(t_df.rows) |->
                                                   NormalOperation(t_df.rows[i])]))
    IN  [operational_energy_kwmin |-> TurbineEnergy(normal_df),
         normal_rows |-> Len(normal_df.rows),
         rows |-> Len(t_df.rows),
         operational_hours |-> Len(normal_df.rows) \div 6]

run_turbine_gross_energy_analysis(h, scada_df, era5_df) ==
    LET scada == h[scada_df]
        years == Years(scada)
        ltc == GrossLongTermCorrection(scada, h[era5_df])
    IN  IF ltc.factor.err # None THEN Raised(h, ltc.factor.err, DivZeroMsg)
        \* line 1140: gross_energy_kwh / 1e6 / years
        ELSE IF Turbines(scada) # {} /\ ~IsNaN(years) /\ years.num = 0
        THEN Raised(h, "ZeroDivisionError", DivZeroMsg)
        ELSE Returned(h,
               [years |-> years,
                op_rows |-> ltc.op_rows,
                op_period_ws |-> ltc.op_period_ws,
                ltm_ws |-> ltc.ltm_ws,
                ltm_correction_factor |-> ltc.factor.sq,
                turbine_results |-> [t \in Turbines(scada) |-> GrossTurbine(scada, t)]])

(***************************************************************************)
(* run_eya_gap_analysis, main.py 1270-1361: the operational energies       *)
(***************************************************************************)
\* eya_predictions, main.py 1296-1305: energies in hundredths of a GWh,
\* percentages in tenths of a percent
eya_predictions ==
    [gross_energy_gwh |-> 2200, wake_loss_percent |-> 80, availability_loss_percent |-> 30,
     electrical_loss_percent |-> 20, turbine_performance_percent |-> 20,
     environmental_loss_percent |-> 10, curtailment_percent |-> 5, net_aep_gwh |-> 1850]

\* -gross_energy_gwh * percent / 100, in hundredths of a GWh
EyaLoss(tenths_of_percent) == -((eya_predictions.gross_energy_gwh * tenths_of_percent) \div 1000)

\* round(meter_energy, 2) with meter_energy = sum / 1e6 / years, in hundredths
\* of a GWh; NaN when years is
NetAepGwh(meter_energy_kwmin, years) ==
    IF IsNaN(years) THEN NaN
    ELSE RoundDiv(meter_energy_kwmin * years.den,
                  years.num * (MinPerHour * (KwhPerGwh \div 100)))

Entry(category, value, type, cumulative) ==
    [category |-> category, value |-> value, type |-> type, cumulative |-> cumulative]

\* waterfall_data, main.py 1329-1338
WaterfallData(net_aep_gwh) ==
    <<Entry("EYA Gross Energy", eya_predictions.gross_energy_gwh, "start",
            eya_predictions.gross_energy_gwh),
      Entry("Wake Losses (EYA)", EyaLoss(eya_predictions.wake_loss_percent), "loss",
            (eya_predictions.gross_energy_gwh * (1000 - eya_predictions.wake_loss_percent))
                \div 1000),
      Entry("Availability (EYA)", EyaLoss(eya_predictions.availability_loss_percent),
            "loss", 0),
      Entry("Electrical (EYA)", EyaLoss(eya_predictions.electrical_loss_percent), "loss", 0),
      Entry("Other Losses (EYA)",
            EyaLoss(eya_predictions.turbine_performance_percent
                        + eya_predictions.environmental_loss_percent
                        + eya_predictions.curtailment_percent), "loss", 0),
      Entry("EYA Net AEP", eya_predictions.net_aep_gwh, "subtotal",
            eya_predictions.net_aep_gwh),
      Entry("OA Gap", IF net_aep_gwh = NaN THEN NaN
                      ELSE net_aep_gwh - eya_predictions.net_aep_gwh, "delta", 0),
      Entry("OA Net AEP", net_aep_gwh, "end", net_aep_gwh)>>

run_eya_gap_analysis(h, scada_df, plant_df) ==
    LET scada == h[scada_df]
        plant == h[plant_df]
        years == Years(scada)
        turbine_energy == TurbineEnergy(scada)
        meter_energy == MeterEnergy(plant, "net_energy_kwh")
        avail_loss == MeterEnergy(plant, "availability_kwh")
        curtail_loss == MeterEnergy(plant, "curtailment_kwh")
        total_potential == meter_energy + avail_loss + curtail_loss
    IN  \* line 1280: ... / 1e6 / years
        IF ~IsNaN(years) /\ years.num = 0
        THEN Raised(h, "ZeroDivisionError", DivZeroMsg)
        \* line 1293: avail_loss / total_potential
        ELSE IF ~IsNaN(years) /\ total_potential = 0
        THEN Raised(h, "ZeroDivisionError", DivZeroMsg)
        ELSE Returned(h,
               [years |-> years,
                turbine_energy_kwmin |-> turbine_energy,
                meter_energy_kwmin |-> meter_energy,
                total_potential_kwmin |-> total_potential,
                elec_loss_kwmin |-> IF turbine_energy > meter_energy
                                    THEN turbine_energy - meter_energy ELSE 0,
                waterfall |-> WaterfallData(NetAepGwh(meter_energy, years))])

(***************************************************************************)
(* pd.cut(x, bins=arange(lo, hi + 1, width)): right-closed intervals       *)
(* (a, b], labelled here by the left edge; NaN outside every interval.     *)
(***************************************************************************)
CutRight(x, lo, width, hi, include_lowest) ==
    IF x = NaN THEN NaN
    ELSE IF include_lowest /\ x = lo THEN lo
    ELSE IF x <= lo \/ x > hi THEN NaN
    ELSE lo + ((x - lo - 1) \div width) * width

\* pd.cut over a column, its values first multiplied by scale
CutCol(t, col, scale, lo, width, hi, include_lowest) ==
    [i \in 1..Len(t.rows) |->
        CutRight(scale * t.rows[i][col], lo, width, hi, include_lowest)]

(***************************************************************************)
(* Grouped aggregates shared by the wake and yaw analyses                  *)
(***************************************************************************)
\* the turbine names of the model, in sorted order
TurbineOrder == <<"R80711", "R80721", "R80736">>

\* the members of S from the largest to the smallest
Descending(S) ==
    [k \in 1..Cardinality(S) |-> CHOOSE x \in S : Cardinality({y \in S : y > x}) = k - 1]

\* the keys of a groupby, and the elements of np.arange, in ascending order
Ascending(S) ==
    [k \in 1..Cardinality(S) |-> CHOOSE x \in S : Cardinality({y \in S : y < x}) = k - 1]

\* df[df[col] == v]
WhereEq(t, col, v) ==
    Table(t.cols, KeepRows(t.rows, [i \in 1..Len(t.rows) |-> t.rows[i][col] = v]))

\* P_avg / (Ws_avg ** 3 + 0.1) of two means, as an exact rational; a zero
\* divisor, which no integer wind speed produces, is left as den = 0
NormalizedPower(p, ws) ==
    IF IsNaN(p) \/ IsNaN(ws) THEN Rat(0, 0)
    ELSE IF 10 * ws.num * ws.num * ws.num + ws.den * ws.den * ws.den < 0
    THEN Reduced(Rat(-10 * p.num * ws.den * ws.den * ws.den,
                     -p.den * (10 * ws.num * ws.num * ws.num + ws.den * ws.den * ws.den)))
    ELSE Reduced(Rat(10 * p.num * ws.den * ws.den * ws.den,
                     p.den * (10 * ws.num * ws.num * ws.num + ws.den * ws.den * ws.den)))

RatAdd(a, b) == Reduced(Rat(a.num * b.den + b.num * a.den, a.den * b.den))

RECURSIVE RatSum(_)
RatSum(s) == IF s = <<>> THEN Rat(0, 1) ELSE RatAdd(Head(s), RatSum(Tail(s)))

\* Series.idxmax(): the first position holding the maximum
IdxMax(s) ==
    CHOOSE i \in 1..Len(s) :
        /\ \A j \in 1..Len(s) : ~RatGt(s[j], s[i])
        /\ \A j \in 1..(i - 1) : RatGt(s[i], s[j])

(***************************************************************************)
(* run_wake_losses_analysis, main.py 1010-1101: the sector table           *)
(***************************************************************************)
WakeSectorWidth == 30
WakeMinSamples == 100

\* dir_df.groupby('Wind_turbine_name').agg(mean), with normalized_power
TurbinePerf(dir_df) ==
    LET names == Turbines(dir_df)
        present == KeepRows(TurbineOrder,
                            [k \in 1..Len(TurbineOrder) |-> TurbineOrder[k] \in names])
    IN  [k \in 1..Len(present) |->
            LET t_df == OfTurbine(dir_df, present[k])
            IN  [turbine |-> present[k],
                 normalized_power |-> NormalizedPower(Reduced(MeanCol(t_df, "P_avg")),
                                                      Reduced(MeanCol(t_df, "Ws_avg")))]]

\* the loss taken against the sum of the normalized powers, not their mean
WakeLossFromSum(max_norm, sum_norm, n) ==
    IF Positive(max_norm)
    THEN RoundDiv(10000 * (max_norm.num * sum_norm.den - sum_norm.num * max_norm.den),
                  max_norm.num * sum_norm.den)
    ELSE 0

\* round((max_norm - avg_norm) / max_norm * 100 if max_norm > 0 else 0, 2),
\* in hundredths of a percent
WakeLoss(max_norm, sum_norm, n) ==
    IF Positive(max_norm)
    THEN RoundDiv(10000 * (max_norm.num * sum_norm.den * n - sum_norm.num * max_norm.den),
                  max_norm.num * sum_norm.den * n)
    ELSE 0

\* the entry appended for one sector
WakeSector(dir_center, dir_df) ==
    LET perf == TurbinePerf(dir_df)
        np == [j \in 1..Len(perf) |-> perf[j].normalized_power]
    IN  [direction_center_deg |-> dir_center,
         wake_loss_percent |-> WakeLoss(np[IdxMax(np)], RatSum(np), Len(np)),
         sample_count |-> Len(dir_df.rows),
         best_turbine |-> perf[IdxMax(np)].turbine]

\* the sectors that get an entry: those of direction_bins[:-1] that hold 100
\* rows or more and more than one turbine
WakeReported(t) ==
    {d \in {t.rows[i].dir_bin : i \in 1..Len(t.rows)} \ {NaN} :
        LET dir_df == WhereEq(t, "dir_bin", d)
        IN  Len(dir_df.rows) >= WakeMinSamples /\ Cardinality(Turbines(dir_df)) > 1}

DirectionLosses(t, centers) ==
    [k \in 1..Len(centers) |-> WakeSector(centers[k], WhereEq(t, "dir_bin", centers[k]))]

run_wake_losses_analysis(h, scada_df, asset_df) ==
    LET c == Copy(h, scada_df)
        h1 == SetColumn(c.heap, c.ref, "dir_bin",
                        CutCol(c.heap[c.ref], "Wa_avg", 1, 0, WakeSectorWidth, 360, TRUE))
    IN  Returned(h1,
          [direction_dependent_losses |->
               DirectionLosses(h1[c.ref], Ascending(WakeReported(h1[c.ref]))),
           turbine_layout |-> h[asset_df].rows,
           turbines |-> Turbines(h[scada_df])])

(***************************************************************************)
(* run_yaw_misalignment_analysis, main.py 1179-1268: the per-turbine       *)
(* filter and the vane bins                                                *)
(***************************************************************************)
YawMinSamples == 1000
VaneBinWidth == 2

\* (P_avg > 100) & (Ws_avg >= 5) & (Ws_avg <= 10)
YawRange(t) ==
    [i \in 1..Len(t.rows) |->
        t.rows[i].P_avg > 100 /\ t.rows[i].Ws_avg >= 5 /\ t.rows[i].Ws_avg <= 10]

VaneMinCount == 50
MinVaneBins == 3

\* t_df.groupby('vane_bin', observed=True).agg(...): one row per vane bin
\* that holds a row, in ascending order of the bins
VanePower(t_df) ==
    LET bins == Ascending({t_df.rows[i].vane_bin : i \in 1..Len(t_df.rows)} \ {NaN})
    IN  [k \in 1..Len(bins) |->
            LET g == WhereEq(t_df, "vane_bin", bins[k])
            IN  [vane_bin |-> bins[k],
                 power_mean |-> Reduced(MeanCol(g, "P_avg")),
                 count |-> Len(g.rows),
                 vane_mean |-> Reduced(MeanCol(g, "Va_avg")),
                 ws_mean |-> Reduced(MeanCol(g, "Ws_avg"))]]

\* the bins dropped whatever their count
EnoughSamplesAlways(vane_power) == vane_power

\* vane_power[vane_power['count'] >= 50]
EnoughSamples(vane_power) ==
    KeepRows(vane_power, [k \in 1..Len(vane_power) |-> vane_power[k].count >= VaneMinCount])

\* the recommendation worded the other way round
RecommendationReversed(misalignment) ==
    IF misalignment.num >= 3 * misalignment.den \/ -misalignment.num >= 3 * misalignment.den
    THEN [text |-> "Adjust yaw offset",
          tenths |-> RoundDiv(10 * (IF misalignment.num < 0 THEN -misalignment.num
                                    ELSE misalignment.num), misalignment.den),
          direction |-> IF misalignment.num > 0 THEN "counter-clockwise" ELSE "clockwise"]
    ELSE [text |-> "No correction needed", tenths |-> 0, direction |-> None]

\* "No correction needed", or f"Adjust yaw offset {abs(misalignment):.1f} {direction}"
Recommendation(misalignment) ==
    IF misalignment.num >= 3 * misalignment.den \/ -misalignment.num >= 3 * misalignment.den
    THEN [text |-> "Adjust yaw offset",
          tenths |-> RoundDiv(10 * (IF misalignment.num < 0 THEN -misalignment.num
                                    ELSE misalignment.num), misalignment.den),
          direction |-> IF misalignment.num > 0 THEN "clockwise" ELSE "counter-clockwise"]
    ELSE [text |-> "No correction needed", tenths |-> 0, direction |-> None]

\* the entry appended for one turbine; angles in tenths of a degree
YawResult(turbine, samples, vane_power) ==
    LET norm_power == [k \in 1..Len(vane_power) |->
                          NormalizedPower(vane_power[k].power_mean, vane_power[k].ws_mean)]
        optimal_vane == vane_power[IdxMax(norm_power)].vane_mean
        misalignment == Rat(-optimal_vane.num, optimal_vane.den)
    IN  [turbine_id |-> turbine,
         yaw_misalignment_deg |-> RoundDiv(10 * misalignment.num, misalignment.den),
         optimal_vane_position_deg |-> RoundDiv(10 * optimal_vane.num, optimal_vane.den),
         sample_count |-> samples,
         recommendation |-> Recommendation(misalignment),
         vane_power_curve |->
             [k \in 1..Len(vane_power) |->
                 [vane_angle_deg |-> RoundDiv(10 * vane_power[k].vane_mean.num,
                                              vane_power[k].vane_mean.den),
                  avg_power_kw |-> RoundDiv(10 * vane_power[k].power_mean.num,
                                            vane_power[k].power_mean.den),
                  sample_count |-> vane_power[k].count]]]

RECURSIVE YawLoop(_, _, _, _)
YawLoop(h, scada_df, todo, turbine_results) ==
    IF todo = <<>> THEN [heap |-> h, turbine_results |-> turbine_results]
    ELSE IF Head(todo) \notin Turbines(h[scada_df])
    THEN YawLoop(h, scada_df, Tail(todo), turbine_results)
    ELSE LET f1 == Filter(h, scada_df, TurbineMask(h[scada_df], Head(todo)))
             c == Copy(f1.heap, f1.ref)
             f2 == Filter(c.heap, c.ref, YawRange(c.heap[c.ref]))
             samples == Len(f2.heap[f2.ref].rows)
             h3 == SetColumn(f2.heap, f2.ref, "vane_bin",
                             CutCol(f2.heap[f2.ref], "Va_avg", 1, -30, VaneBinWidth, 30,
                                    FALSE))
             vane_power == EnoughSamples(VanePower(h3[f2.ref]))
         IN  IF samples < YawMinSamples
             THEN YawLoop(f2.heap, scada_df, Tail(todo), turbine_results)
             ELSE IF Len(vane_power) > MinVaneBins
             THEN YawLoop(h3, scada_df, Tail(todo),
                          Append(turbine_results,
                                 YawResult(Head(todo), samples, vane_power)))
             ELSE YawLoop(h3, scada_df, Tail(todo), turbine_results)

run_yaw_misalignment_analysis(h, scada_df) ==
    LET loop == YawLoop(h, scada_df, TurbineOrder, <<>>)
    IN  Returned(loop.heap,
          [turbines_analyzed |-> Len(loop.turbine_results),
           \* len([t for t in turbine_results if abs(t['yaw_misalignment_deg']) >= 3]),
           \* on the rounded value, in tenths of a degree here
           turbines_needing_correction |->
               Cardinality({k \in 1..Len(loop.turbine_results) :
                               \/ loop.turbine_results[k].yaw_misalignment_deg >= 30
                               \/ loop.turbine_results[k].yaw_misalignment_deg <= -30}),
           turbine_results |-> loop.turbine_results])

(***************************************************************************)
(* The data endpoints: the cached tables they read, the objects they       *)
(* create and change, and the exceptions they raise.                       *)
(***************************************************************************)
\* get_data_overview, main.py 261-316
get_data_overview(h, c) ==
    Returned(h,
      [scada_rows |-> Len(h[c["scada"]].rows),
       total_energy_kwmin |-> PowerSumAsKwh(h[c["scada"]]),
       total_energy_gwh |-> RoundGwh(PowerSumAsKwh(h[c["scada"]]), 2),
       plant_rows |-> Len(h[c["plant"]].rows),
       plant_energy_gwh |-> RoundGwh(MeterEnergy(h[c["plant"]], "net_energy_kwh"), 2),
       asset_count |-> Len(h[c["asset"]].rows),
       era5_rows |-> Len(h[c["era5"]].rows),
       merra2_rows |-> Len(h[c["merra2"]].rows)])

\* the mean of a column rounded to scale-ths, None when the group is empty
MeanOrNone(g, col, scale) ==
    IF Len(g.rows) = 0 THEN None ELSE RoundDiv(scale * SumCol(g, col), Len(g.rows))

\* groupby('month').agg(...) and the list built from it, main.py 345-363: one
\* entry per calendar month that holds a row, in ascending order of the
\* months; rows without a timestamp are in no group
MonthlyData(t) ==
    LET months == Ascending({t.rows[i].month : i \in 1..Len(t.rows)} \ {NaT})
    IN  [k \in 1..Len(months) |->
            LET g == WhereEq(t, "month", months[k])
            IN  [month |-> MonthStr(months[k]),
                 energy_mwh |-> RoundDiv(SumCol(g, "P_avg"), 100),
                 avg_wind_speed_ms |-> MeanOrNone(g, "Ws_avg", 100),
                 avg_temperature_c |-> MeanOrNone(g, "Ot_avg", 10)]]

\* get_scada_summary, main.py 318-395
get_scada_summary(h, c) ==
    LET scada == h[c["scada"]]
        years == Years(scada)
        cp == Copy(h, c["scada"])
        h1 == SetColumn(cp.heap, cp.ref, "month", PeriodCol(cp.heap[cp.ref], "Date_time"))
        h2 == SetColumn(h1, cp.ref, "season", SeasonCol(h1[cp.ref], "Date_time"))
    IN  \* line 342: len(t_df) / (365.25 * 24 * 6 * date_range_years)
        IF Turbines(scada) # {} /\ ~IsNaN(years) /\ years.num = 0
        THEN Raised(h, "ZeroDivisionError", DivZeroMsg)
        ELSE Returned(h2,
               [total_energy_kwmin |-> PowerSumAsKwh(scada),
                total_energy_gwh |-> RoundGwh(PowerSumAsKwh(scada), 2),
                turbine_energy_kwmin |->
                    [t \in Turbines(scada) |-> PowerSumAsKwh(OfTurbine(scada, t))],
                monthly_data |-> MonthlyData(h1[cp.ref]),
                data_period_years |-> years])

DefaultLimit == 500

\* freq_map.get(resolution, "D"), main.py 424-431, for the resolutions of
\* the model
FreqOf(resolution) == IF resolution = "monthly" THEN "ME" ELSE "D"

\* the bucket of a timestamp: its calendar day, or its calendar month
BucketOf(ts, freq) == IF freq = "ME" THEN PeriodOf(ts) ELSE ts \div HoursPerDay

\* the timestamp that labels a bucket: the day itself, or the last day of
\* the month
LabelOf(bucket, freq) ==
    IF freq = "ME" THEN (MonthStartDay(bucket + 1) - 1) * HoursPerDay
    ELSE bucket * HoursPerDay

\* one row per bucket from first_bucket to last_bucket, holding the label of
\* the bucket and the rows of t whose bucket it is
RowPerBucket(t, freq, buckets, first_bucket, last_bucket) ==
    [k \in 1..(last_bucket - first_bucket + 1) |->
        [Date_time |-> LabelOf(first_bucket + k - 1, freq),
         group |-> Table(t.cols,
                         KeepRows(t.rows,
                                  [i \in 1..Len(t.rows) |->
                                      buckets[i] = first_bucket + k - 1]))]]

\* resample(freq) / groupby(pd.Grouper(freq=freq)) and reset_index, main.py
\* 419-451: one row per bucket from the first bucket that holds a row to the
\* last, in ascending order, the buckets without rows included; rows without
\* a timestamp are in no bucket
Resampled(t, freq) ==
    IF Stamps(t, "Date_time") = {} THEN <<>>
    ELSE LET buckets == [i \in 1..Len(t.rows) |->
                            IF t.rows[i].Date_time = NaT THEN NaT
                            ELSE BucketOf(t.rows[i].Date_time, freq)]
             span == <<BucketOf(TsMin(t, "Date_time"), freq),
                       BucketOf(TsMax(t, "Date_time"), freq)>>
         IN  RowPerBucket(t, freq, buckets, span[1], span[2])

\* DataFrame.head(limit): the first limit rows
FirstRows(s, limit) == IF limit >= Len(s) THEN s ELSE SubSeq(s, 1, limit)

\* DataFrame.tail(limit): the last limit rows, in their order
LastRows(s, limit) ==
    IF limit >= Len(s) THEN s ELSE SubSeq(s, Len(s) - limit + 1, Len(s))

\* the item built of one resampled row, main.py 456-464
Item(row, turbine_id) ==
    LET item == [timestamp |-> IsoFormat(row.Date_time),
                 power_kw |-> MeanOrNone(row.group, "P_avg", 10),
                 wind_speed_ms |-> MeanOrNone(row.group, "Ws_avg", 100),
                 temperature_c |-> MeanOrNone(row.group, "Ot_avg", 10)]
    IN  IF turbine_id = None THEN item
        ELSE [timestamp |-> item.timestamp, power_kw |-> item.power_kw,
              wind_speed_ms |-> item.wind_speed_ms, temperature_c |-> item.temperature_c,
              nacelle_direction_deg |-> MeanOrNone(row.group, "Ya_avg", 10),
              wind_direction_deg |-> MeanOrNone(row.group, "Wa_avg", 10)]

\* data, main.py 454-465: the items of the resampled rows, in their order
Items(resampled, turbine_id) ==
    [k \in 1..Len(resampled) |-> Item(resampled[k], turbine_id)]

\* get_scada_timeseries, main.py 397-472, with a turbine filter or None, the
\* resolution and the limit of the request, and no date range
get_scada_timeseries(h, c, turbine_id, resolution, limit) ==
    LET cp == Copy(h, c["scada"])
        f == IF turbine_id = None THEN cp
             ELSE Filter(cp.heap, cp.ref, TurbineMask(cp.heap[cp.ref], turbine_id))
        resampled == LastRows(Resampled(f.heap[f.ref], FreqOf(resolution)), limit)
        data == Items(resampled, turbine_id)
    IN  Returned(f.heap, [rows |-> Len(f.heap[f.ref].rows),
                          resolution |-> resolution,
                          turbine_filter |-> turbine_id,
                          data_points |-> Len(data),
                          data |-> data])

CurveMinCount == 10

\* scada_df.groupby('ws_bin', observed=True).agg(...): one row per wind-speed
\* bin that holds a row, in ascending order of the bins; the mean wind speed
\* in hundredths of a metre per second, the mean power in tenths of a kW
Binned(t) ==
    LET bins == Ascending({t.rows[i].ws_bin : i \in 1..Len(t.rows)} \ {NaN})
    IN  [k \in 1..Len(bins) |->
            LET g == WhereEq(t, "ws_bin", bins[k])
            IN  [wind_speed |-> RoundDiv(100 * SumCol(g, "Ws_avg"), Len(g.rows)),
                 power_mean |-> RoundDiv(10 * SumCol(g, "P_avg"), Len(g.rows)),
                 count |-> Len(g.rows)]]

\* the bins appended whatever their count
MeasuredCurveUnfiltered(binned) == binned

\* the rows of binned with count >= 10
MeasuredCurve(binned) ==
    KeepRows(binned, [k \in 1..Len(binned) |-> binned[k].count >= CurveMinCount])

\* get_power_curve_data, main.py 474-537, with the default bin width of 0.5 m/s
\* (wind speeds doubled to count in half metres per second)
get_power_curve_data(h, c) ==
    LET cp == Copy(h, c["scada"])
        t == cp.heap[cp.ref]
        f == Filter(cp.heap, cp.ref,
                    [i \in 1..Len(t.rows) |->
                        t.rows[i].P_avg >= 0 /\ t.rows[i].Ws_avg >= 0 /\ t.rows[i].Ws_avg <= 30])
        h1 == SetColumn(f.heap, f.ref, "ws_bin",
                        CutCol(f.heap[f.ref], "Ws_avg", 2, 0, 1, 60, FALSE))
    IN  Returned(h1, [measured_curve |-> MeasuredCurve(Binned(h1[f.ref])),
                      total_data_points |-> Len(h1[f.ref].rows)])

\* pd.cut(Ws_avg, bins=[0, 4, 8, 12, 16, 25]), labelled by the left edge
SpeedBin(ws) ==
    IF ws <= 0 \/ ws > 25 THEN NaN
    ELSE IF ws <= 16 THEN CutRight(ws, 0, 4, 16, FALSE)
    ELSE 16

\* wind_rose, main.py 561-579: one entry per sector of direction_bins[:-1] that
\* holds a row, in ascending order; dir_bin counts in half degrees, direction
\* is int(dir_center), the frequency in hundredths of a percent
WindRose(t) ==
    LET sectors == Ascending({t.rows[i].dir_bin : i \in 1..Len(t.rows)} \ {NaN})
    IN  [k \in 1..Len(sectors) |->
            LET dir_data == WhereEq(t, "dir_bin", sectors[k])
            IN  [direction |-> sectors[k] \div 2,
                 frequency_percent |-> RoundDiv(10000 * Len(dir_data.rows), Len(t.rows)),
                 count |-> Len(dir_data.rows)]]

\* get_wind_rose_data, main.py 539-591 (directions doubled: sectors of 22.5 degrees)
get_wind_rose_data(h, c) ==
    LET cp == Copy(h, c["scada"])
        t == cp.heap[cp.ref]
        f == Filter(cp.heap, cp.ref,
                    [i \in 1..Len(t.rows) |->
                        t.rows[i].Wa_avg >= 0 /\ t.rows[i].Wa_avg <= 360 /\ t.rows[i].Ws_avg >= 0])
        h1 == SetColumn(f.heap, f.ref, "dir_bin",
                        CutCol(f.heap[f.ref], "Wa_avg", 2, 0, 45, 720, TRUE))
        h2 == SetColumn(h1, f.ref, "speed_bin",
                        [i \in 1..Len(h1[f.ref].rows) |->
                            SpeedBin(h1[f.ref].rows[i].Ws_avg)])
    IN  Returned(h2, [data |-> WindRose(h2[f.ref]),
                      total_observations |-> Len(h2[f.ref].rows)])

\* get_reanalysis_data, main.py 593-671
get_reanalysis_data(h, c) ==
    LET c1 == Copy(h, c["era5"])
        c2 == Copy(c1.heap, c["merra2"])
        h1 == SetColumn(c2.heap, c1.ref, "year", YearCol(c2.heap[c1.ref], "datetime"))
        h2 == SetColumn(h1, c2.ref, "year", YearCol(h1[c2.ref], "datetime"))
        h3 == SetColumn(h2, c1.ref, "month", MonthCol(h2[c1.ref], "datetime"))
    IN  \* lines 631 and 653: int() of the year of a NaT
        IF Stamps(h[c["era5"]], "datetime") = {} \/ Stamps(h[c["merra2"]], "datetime") = {}
        THEN Raised(h3, "ValueError", <<"cannot convert float NaN to integer">>)
        ELSE Returned(h3,
               [era5_ltm |-> MeanCol(h[c["era5"]], "ws_100m"),
                merra2_ltm |-> MeanCol(h[c["merra2"]], "ws_50m"),
                era5_points |-> Len(h[c["era5"]].rows)])

\* get_availability_data, main.py 673-718
get_availability_data(h, c) ==
    LET cp == Copy(h, c["plant"])
        h1 == SetColumn(cp.heap, cp.ref, "month", PeriodCol(cp.heap[cp.ref], "time_utc"))
        plant == h[c["plant"]]
    IN  Returned(h1,
          [total_net_kwmin |-> MeterEnergy(plant, "net_energy_kwh"),
           total_potential_kwmin |-> MeterEnergy(plant, "net_energy_kwh")
                                       + MeterEnergy(plant, "availability_kwh")
                                       + MeterEnergy(plant, "curtailment_kwh")])

\* get_api_info, main.py 175-255
get_api_info(h, c) ==
    Returned(h,
      [scada_records |-> Len(h[c["scada"]].rows),
       scada_start |-> TsMin(h[c["scada"]], "Date_time"),
       scada_end |-> TsMax(h[c["scada"]], "Date_time"),
       turbines |-> h[c["asset"]].rows,
       analyses |-> <<"monte_carlo_aep", "electrical_losses", "wake_losses",
                      "turbine_gross_energy", "yaw_misalignment", "eya_gap">>])

(***************************************************************************)
(* run_analysis, main.py 786-827                                           *)
(***************************************************************************)
AnalysisTypes ==
    {"monte_carlo_aep", "aep", "electrical_losses", "wake_losses",
     "turbine_gross_energy", "yaw_misalignment", "eya_gap"}

\* the datasets each analysis asks get_cached_data for, in order
AnalysisKeys(type) ==
    CASE type \in {"monte_carlo_aep", "aep"} -> <<"scada", "era5">>
      [] type = "electrical_losses" -> <<"scada", "plant">>
      [] type = "wake_losses" -> <<"scada", "asset">>
      [] type = "turbine_gross_energy" -> <<"scada", "era5">>
      [] type = "yaw_misalignment" -> <<"scada">>
      [] type = "eya_gap" -> <<"scada", "plant">>
      [] OTHER -> <<>>

\* the routing without the second name of the AEP analysis
DispatchWithoutAlias(type, h, c) ==
    CASE type = "aep" -> run_aep_analysis(h, c["scada"], c["era5"])
      [] type = "electrical_losses" ->
            run_electrical_losses_analysis(h, c["scada"], c["plant"])
      [] type = "wake_losses" -> run_wake_losses_analysis(h, c["scada"], c["asset"])
      [] type = "turbine_gross_energy" ->
            run_turbine_gross_energy_analysis(h, c["scada"], c["era5"])
      [] type = "yaw_misalignment" -> run_yaw_misalignment_analysis(h, c["scada"])
      [] type = "eya_gap" -> run_eya_gap_analysis(h, c["scada"], c["plant"])
      [] OTHER -> Raised(h, "HTTPException", <<"400: Unknown analysis type: ", type>>)

\* results that tell which objects are alive when the analysis runs
DispatchSeeingCache(type, h, c) == Returned(h, [cached |-> DOMAIN h])

Dispatch(type, h, c) ==
    CASE type \in {"monte_carlo_aep", "aep"} -> run_aep_analysis(h, c["scada"], c["era5"])
      [] type = "electrical_losses" ->
            run_electrical_losses_analysis(h, c["scada"], c["plant"])
      [] type = "wake_losses" -> run_wake_losses_analysis(h, c["scada"], c["asset"])
      [] type = "turbine_gross_energy" ->
            run_turbine_gross_energy_analysis(h, c["scada"], c["era5"])
      [] type = "yaw_misalignment" -> run_yaw_misalignment_analysis(h, c["scada"])
      [] type = "eya_gap" -> run_eya_gap_analysis(h, c["scada"], c["plant"])
      [] OTHER -> Raised(h, "HTTPException", <<"400: Unknown analysis type: ", type>>)

(***************************************************************************)
(* HTTP responses.  exc is the exception the handler's body raised (what   *)
(* an except clause receives); status and detail are what the client gets. *)
(***************************************************************************)
\* what is kept of an answer beside its results: the other fields of an
\* analysis response, the limit a time series was asked with; none otherwise
NoMeta == [none |-> TRUE]

Http(op, status, detail, exc, body) ==
    [op |-> op, status |-> status, detail |-> detail, exc |-> exc, body |-> body,
     meta |-> NoMeta]

\* AnalysisResponse(status="success", analysis_type=..., results=...,
\* timestamp=datetime.now(timezone.utc).isoformat(), ...,
\* execution_time_seconds=round(execution_time, 2)), main.py 814-823
AnalysisResponse(analysis_type, now, execution_time) ==
    [status |-> "success", analysis_type |-> analysis_type, timestamp |-> now,
     message |-> "Analysis completed successfully using real OpenOA data",
     execution_time_seconds |-> execution_time]

NoResponse == Http(None, 0, <<>>, NoExc, NoBody)

\* raise HTTPException(status_code=503, ...) before anything is read
Unavailable(op, detail) == Http(op, 503, detail, NoExc, NoBody)
\* an except clause that answers without the message of what it caught
WrappedSilently(op, prefix, exc) ==
    Http(op, 500, <<prefix, "internal error">>, [type |-> "Exception", msg |-> <<>>], NoBody)

\* except Exception as e: raise HTTPException(500, detail=f"<prefix>{str(e)}")
Wrapped(op, prefix, exc) == Http(op, 500, <<prefix>> \o exc.msg, exc, NoBody)

\* an exception no handler catches: the server's plain 500
Unhandled(op, exc) == Http(op, 500, <<"Internal Server Error">>, exc, NoBody)

\* the objects still referenced when the handler has returned
Live(h, c) == [r \in {c[k] : k \in Keys} \ {NoRef} |-> h[r]]

St == [cache |-> cache, heap |-> heap, loads |-> loads]

\* the outcome of a handler whose get_cached_data calls came out as f: the
\* exception of the first call that raised, or else what the body b does
Guarded(f, b) ==
    [cache |-> f.cache, loads |-> f.loads,
     out |-> IF f.exc # NoExc THEN Raised(f.heap, f.exc.type, f.exc.msg) ELSE b]

\* a handler: the availability check, the get_cached_data calls and the body
\* (their outcome is g), and the response; prefix = None when the handler has
\* no except clause
Serve(op, prefix, detail503, g) ==
    IF ~openoa
    THEN /\ last' = Unavailable(op, detail503)
         /\ UNCHANGED <<cache, heap, loads>>
    ELSE /\ cache' = g.cache
         /\ loads' = g.loads
         /\ heap' = Live(g.out.heap, g.cache)
         /\ last' = IF g.out.exc = NoExc THEN Http(op, 200, <<>>, NoExc, g.out.body)
                    ELSE IF prefix = None THEN Unhandled(op, g.out.exc)
                    ELSE Wrapped(op, prefix, g.out.exc)

AnalysisRequest(type, f) == Guarded(f, Dispatch(type, f.heap, f.cache))

\* a handler without the availability check
ServeWithUnchecked(op, prefix, detail503, g, meta) ==
    /\ cache' = g.cache
    /\ loads' = g.loads
    /\ heap' = Live(g.out.heap, g.cache)
    /\ last' = IF g.out.exc = NoExc
               THEN [Http(op, 200, <<>>, NoExc, g.out.body) EXCEPT !.meta = meta]
               ELSE Wrapped(op, prefix, g.out.exc)

\* Serve, with the fields that go beside the results of an answer
ServeWith(op, prefix, detail503, g, meta) ==
    IF ~openoa
    THEN /\ last' = Unavailable(op, detail503)
         /\ UNCHANGED <<cache, heap, loads>>
    ELSE /\ cache' = g.cache
         /\ loads' = g.loads
         /\ heap' = Live(g.out.heap, g.cache)
         /\ last' = IF g.out.exc = NoExc
                    THEN [Http(op, 200, <<>>, NoExc, g.out.body) EXCEPT !.meta = meta]
                    ELSE IF prefix = None THEN Unhandled(op, g.out.exc)
                    ELSE Wrapped(op, prefix, g.out.exc)

\* run_analysis, main.py 786-827, for a request of the given type; clock
\* holds the time at which it is answered and the time it took
run_analysis(type, clock) ==
    ServeWith(type, "Analysis failed: ", <<"OpenOA library not available">>,
              AnalysisRequest(type, Fetch(St, AnalysisKeys(type), files)),
              AnalysisResponse(type, clock.now, clock.elapsed))

\* the readings of the clock; where the clock plays no part it shows Noon
Noon == [now |-> 1, elapsed |-> 0]
Clock == {Noon, [now |-> 2, elapsed |-> 1]}

(***************************************************************************)
(* The actions: one per route.                                             *)
(***************************************************************************)
NotAvailable == <<"OpenOA not available">>

Quiet == UNCHANGED <<files, openoa, tasks>>

\* a route that reads no dataset and checks nothing: it answers with body
Plain(op, body) ==
    /\ last' = Http(op, 200, <<>>, NoExc, body)
    /\ UNCHANGED <<cache, heap, loads>>

\* root, main.py 140-146
GetRoot ==
    /\ Plain("root", [message |-> "OpenOA Wind Farm Analytics API v2.0",
                      openoa_available |-> openoa])
    /\ Quiet

\* health_check, main.py 148-155
HealthCheck ==
    /\ \E clock \in Clock :
          Plain("health", [status |-> "healthy", openoa_available |-> openoa,
                           timestamp |-> clock.now])
    /\ Quiet

\* debug_files, main.py 157-173
DebugFiles ==
    /\ Plain("debug", [files |-> [k \in Keys |-> [exists |-> files[k].exists]]])
    /\ Quiet

\* list_analyses, main.py 724-784
ListAnalyses ==
    /\ Plain("analyses", [analyses |-> <<"aep", "electrical_losses", "wake_losses",
                                         "turbine_gross_energy", "yaw_misalignment",
                                         "eya_gap">>])
    /\ Quiet

ApiInfoRequest(f) == Guarded(f, get_api_info(f.heap, f.cache))

GetApiInfo ==
    /\ Serve("info", "Error loading data: ", NotAvailable,
             ApiInfoRequest(Fetch(St, <<"asset", "scada">>, files)))
    /\ Quiet

DataOverviewRequest(f) == Guarded(f, get_data_overview(f.heap, f.cache))

GetDataOverview ==
    /\ Serve("overview", "Error in data overview: ", NotAvailable,
             DataOverviewRequest(
                Fetch(St, <<"scada", "plant", "asset", "era5", "merra2">>, files)))
    /\ Quiet

ScadaSummaryRequest(f) == Guarded(f, get_scada_summary(f.heap, f.cache))

GetScadaSummary ==
    /\ Serve("summary", None, NotAvailable,
             ScadaSummaryRequest(Fetch(St, <<"scada">>, files)))
    /\ Quiet

ScadaTimeseriesRequest(f, turbine_id, resolution, limit) ==
    Guarded(f, get_scada_timeseries(f.heap, f.cache, turbine_id, resolution, limit))

GetScadaTimeseries ==
    /\ \E turbine_id \in {None, "R80711"}, resolution \in {"daily", "monthly"},
          limit \in {DefaultLimit, 3, 0} :
          ServeWith("timeseries", None, NotAvailable,
                    ScadaTimeseriesRequest(Fetch(St, <<"scada">>, files),
                                           turbine_id, resolution, limit),
                    [limit |-> limit])
    /\ Quiet

\* the same request at the default resolution
GetDailyTimeseries ==
    /\ \E turbine_id \in {None, "R80711"}, limit \in {DefaultLimit, 3} :
          ServeWith("timeseries", None, NotAvailable,
                    ScadaTimeseriesRequest(Fetch(St, <<"scada">>, files),
                                           turbine_id, "daily", limit),
                    [limit |-> limit])
    /\ Quiet

PowerCurveRequest(f) == Guarded(f, get_power_curve_data(f.heap, f.cache))

GetPowerCurve ==
    /\ Serve("power_curve", None, NotAvailable,
             PowerCurveRequest(Fetch(St, <<"scada">>, files)))
    /\ Quiet

WindRoseRequest(f) == Guarded(f, get_wind_rose_data(f.heap, f.cache))

GetWindRose ==
    /\ Serve("wind_rose", None, NotAvailable,
             WindRoseRequest(Fetch(St, <<"scada">>, files)))
    /\ Quiet

ReanalysisRequest(f) == Guarded(f, get_reanalysis_data(f.heap, f.cache))

GetReanalysis ==
    /\ Serve("reanalysis", None, NotAvailable,
             ReanalysisRequest(Fetch(St, <<"era5", "merra2">>, files)))
    /\ Quiet

AvailabilityRequest(f) == Guarded(f, get_availability_data(f.heap, f.cache))

GetAvailability ==
    /\ Serve("availability", None, NotAvailable,
             AvailabilityRequest(Fetch(St, <<"plant">>, files)))
    /\ Quiet

RunAnalysis ==
    /\ \E type \in AnalysisTypes \cup {"bogus"}, clock \in Clock :
          run_analysis(type, clock)
    /\ Quiet

(***************************************************************************)
(* The files the process may find on disk.                                 *)
(***************************************************************************)
T2014 == 17544      \* 2014-01-01 00:00, in hours since 2012-01-01

SeqsUpTo(S, n) == UNION {[1..k -> S] : k \in 0..n}

Missing == [exists |-> FALSE, readable |-> FALSE, cols |-> {}, rows |-> <<>>]
Unreadable == [exists |-> TRUE, readable |-> FALSE, cols |-> {}, rows |-> <<>>]
NoColumns == [exists |-> TRUE, readable |-> TRUE, cols |-> {"id"}, rows |-> <<>>]
Good(cols, rows) == [exists |-> TRUE, readable |-> TRUE, cols |-> cols, rows |-> rows]

ScadaCols ==
    {"Date_time", "Wind_turbine_name", "P_avg", "Ws_avg", "Wa_avg", "Va_avg", "Ot_avg",
     "Ya_avg"}

ScadaRow(cell, turbine, p, ws) ==
    [Date_time |-> cell, Wind_turbine_name |-> turbine, P_avg |-> p, Ws_avg |-> ws,
     Wa_avg |-> 90, Va_avg |-> 0, Ot_avg |-> 10, Ya_avg |-> 90]

PlantCols == {"time_utc", "net_energy_kwh", "availability_kwh", "curtailment_kwh"}

PlantRow(cell, net, avail, curtail) ==
    [time_utc |-> cell, net_energy_kwh |-> net, availability_kwh |-> avail,
     curtailment_kwh |-> curtail]

Era5Cols == {"datetime", "ws_100m", "dens_100m"}
Era5Row(cell, ws) == [datetime |-> cell, ws_100m |-> ws, dens_100m |-> 1]

Merra2Cols == {"datetime", "ws_50m", "dens_50m"}
Merra2Row(cell, ws) == [datetime |-> cell, ws_50m |-> ws, dens_50m |-> 1]

AssetCols == {"asset_id", "rated_power"}
AssetRow(id) == [asset_id |-> id, rated_power |-> 2050]

SampleEra5 == Good(Era5Cols, <<Era5Row(GoodTs(T2014 - 24, 0), 3), Era5Row(GoodTs(T2014, 0), 2)>>)
SampleMerra2 == Good(Merra2Cols, <<Merra2Row(GoodTs(T2014, 0), 2)>>)
SampleAsset == Good(AssetCols, <<AssetRow("R80711"), AssetRow("R80721")>>)

\* timestamp cells: text that is no timestamp, a timestamp with a zone offset
\* of one hour, and a timestamp two days later without one
Cells == {BadTs, GoodTs(T2014, 1), GoodTs(T2014 + 48, 0)}

InitProcess(fs) ==
    /\ files = fs
    /\ cache = [k \in Keys |-> NoRef]
    /\ heap = <<>>
    /\ loads = [k \in Keys |-> 0]
    /\ last = NoResponse
    /\ tasks = <<>>

(***************************************************************************)
(* Spec: the process serving requests one at a time, over any mix of       *)
(* missing, malformed and well-formed files.                               *)
(***************************************************************************)
SampleScada ==
    Good(ScadaCols, <<ScadaRow(GoodTs(T2014, 1), "R80711", 600, 6),
                      ScadaRow(BadTs, "R80711", 300, 6),
                      ScadaRow(GoodTs(T2014 + 48, 0), "R80721", 600, 6)>>)

SamplePlant == Good(PlantCols, <<PlantRow(GoodTs(T2014, 1), 100, 5, 1)>>)

\* the files on disk: each missing, malformed or well-formed
Worlds ==
    [scada : {Missing, NoColumns, SampleScada},
     plant : {Missing, SamplePlant},
     asset : {Missing, NoColumns, SampleAsset},
     era5 : {Missing, Unreadable, SampleEra5},
     merra2 : {SampleMerra2}]

Init ==
    /\ openoa \in BOOLEAN
    /\ \E fs \in Worlds : InitProcess(fs)

Next ==
    \/ GetApiInfo
    \/ GetDataOverview
    \/ GetScadaSummary
    \/ GetDailyTimeseries
    \/ GetPowerCurve
    \/ GetWindRose
    \/ GetReanalysis
    \/ GetAvailability
    \/ RunAnalysis
    \/ GetRoot
    \/ HealthCheck
    \/ DebugFiles
    \/ ListAnalyses

Spec == Init /\ [][Next]_vars

(***************************************************************************)
(* SpecLoad: the loaders over files whose timestamp cells parse or not.    *)
(***************************************************************************)
InitLoad ==
    /\ openoa = TRUE
    /\ \E sc \in SeqsUpTo({ScadaRow(cell, "R80711", 600, 6) : cell \in Cells}, MaxRows),
          er \in SeqsUpTo({Era5Row(cell, 3) : cell \in Cells}, MaxRows),
          pl \in SeqsUpTo({PlantRow(cell, 100, 5, 1) : cell \in {BadTs, GoodTs(T2014, 1)}}, 1) :
          InitProcess([scada |-> Good(ScadaCols, sc), plant |-> Good(PlantCols, pl),
                       asset |-> SampleAsset, era5 |-> Good(Era5Cols, er),
                       merra2 |-> SampleMerra2])

NextLoad ==
    \/ GetPowerCurve
    \/ GetAvailability
    \/ GetReanalysis

SpecLoad == InitLoad /\ [][NextLoad]_vars

(***************************************************************************)
(* SpecEnergy: the energy totals over SCADA tables of any powers and meter *)
(* tables of any net energy.  Row i of the SCADA file is stamped 200 days  *)
(* after row i - 1.                                                        *)
(***************************************************************************)
Powers == {-300, 100, 200, 300}

EnergyReadings == {<<"R80711", p>> : p \in Powers}

StampedScada(readings) ==
    [i \in 1..Len(readings) |->
        ScadaRow(GoodTs(T2014 + (i - 1) * 200 * HoursPerDay, 0),
                 readings[i][1], readings[i][2], 6)]

InitEnergy ==
    /\ openoa = TRUE
    /\ \E readings \in SeqsUpTo(EnergyReadings, MaxScada),
          pl \in SeqsUpTo({PlantRow(GoodTs(T2014, 0), net, 0, 0) : net \in {0, 100}}, 1) :
          InitProcess([scada |-> Good(ScadaCols, StampedScada(readings)),
                       plant |-> Good(PlantCols, pl),
                       asset |-> SampleAsset, era5 |-> SampleEra5, merra2 |-> SampleMerra2])

RunEnergyAnalysis ==
    /\ \E type \in {"aep", "electrical_losses", "turbine_gross_energy", "eya_gap"} :
          run_analysis(type, Noon)
    /\ Quiet

NextEnergy ==
    \/ RunEnergyAnalysis
    \/ GetDataOverview
    \/ GetScadaSummary

SpecEnergy == InitEnergy /\ [][NextEnergy]_vars

(***************************************************************************)
(* SpecLtc: the long-term correction over reanalysis tables whose rows lie *)
(* before, on the bounds of, and after the operational window.             *)
(***************************************************************************)
OpStart == T2014
OpEnd == T2014 + 400 * HoursPerDay

LtcScada ==
    {<<>>,
     <<ScadaRow(BadTs, "R80711", 600, 6)>>,
     <<ScadaRow(GoodTs(OpStart, 0), "R80711", 600, 6),
       ScadaRow(GoodTs(OpEnd, 0), "R80711", 600, 6)>>}

LtcEra5Rows ==
    {Era5Row(cell, ws) :
        cell \in {BadTs, GoodTs(OpStart - 1, 0), GoodTs(OpStart, 0), GoodTs(OpEnd, 0),
                  GoodTs(OpEnd + 1, 0)},
        ws \in {0, 3, 6, 7}}

InitLtc ==
    /\ openoa = TRUE
    /\ \E sc \in LtcScada, er \in SeqsUpTo(LtcEra5Rows, MaxEra) :
          InitProcess([scada |-> Good(ScadaCols, sc), plant |-> SamplePlant,
                       asset |-> SampleAsset, era5 |-> Good(Era5Cols, er),
                       merra2 |-> SampleMerra2])

RunCorrectedAnalysis ==
    /\ \E type \in {"aep", "monte_carlo_aep", "turbine_gross_energy"} :
          run_analysis(type, Noon)
    /\ Quiet

NextLtc == RunCorrectedAnalysis

SpecLtc == InitLtc /\ [][NextLtc]_vars

(***************************************************************************)
(* SpecBins: SCADA tables large enough for the minimum-count rules of the  *)
(* binned analyses, built from blocks of equal readings.                   *)
(***************************************************************************)
Reading(turbine, p, ws, wa, va) ==
    [ScadaRow(GoodTs(T2014, 0), turbine, p, ws) EXCEPT !.Wa_avg = wa, !.Va_avg = va]

Block(row, n) == [i \in 1..n |-> row]

\* one sector shared by two or three turbines, and optionally a second sector
\* further round
WakeTable(p1, t2, wa, n2, n3, n4) ==
    Block(Reading("R80711", p1, 1, wa, 0), 50)
        \o Block(Reading("R80721", t2[1], t2[2], wa, 0), n2)
        \o Block(Reading("R80736", 66, 1, wa, 0), n3)
        \o Block(Reading("R80711", 110, 1, 200, 0), n4)
        \o Block(Reading("R80721", 88, 1, 200, 0), n4)

\* the powers and wind speeds varied in one sector; the wind direction put on
\* and off the sector edges and the sector one row short of its minimum
WakeTables ==
    {WakeTable(p1, t2, 45, 50, n3, 0) :
        p1 \in {110, -330},
        t2 \in {<<110, 1>>, <<88, 1>>, <<-330, 1>>, <<110, -1>>},
        n3 \in {0, 34}}
    \cup {WakeTable(110, <<88, 1>>, wa, n2, 0, 50) :
             wa \in {0, 30, 360, 361}, n2 \in {49, 50}}

\* three turbines whose mean powers 11, 8.8 and 6.6 at wind speed 1 give the
\* normalized powers 10, 8 and 6
ExampleWake ==
    Block(Reading("R80711", 11, 1, 45, 0), 50)
        \o Block(Reading("R80721", 9, 1, 45, 0), 40)
        \o Block(Reading("R80721", 8, 1, 45, 0), 10)
        \o Block(Reading("R80736", 7, 1, 45, 0), 30)
        \o Block(Reading("R80736", 6, 1, 45, 0), 20)

\* one turbine with 1000 rows or so in normal operation, spread over vane
\* angles on and beside the bin edges, one more row under the power floor,
\* and a second turbine with ten rows
YawTable(pA, pD, vb, nA, nE) ==
    Block(Reading("R80711", 300, 6, 1, -7), 200)
        \o Block(Reading("R80711", pA, 6, 1, -4), nA)
        \o Block(Reading("R80711", 500, 6, 1, vb), 200)
        \o Block(Reading("R80711", 450, 6, 1, 1), 200)
        \o Block(Reading("R80711", pD, 6, 1, 4), 200)
        \o Block(Reading("R80711", 900, 6, 1, 7), nE)
        \o Block(Reading("R80711", 100, 6, 1, 1), 1)
        \o Block(Reading("R80721", 500, 6, 200, 1), 10)

\* the turbine's best bin (-4, -2] holding n rows at -2 degrees and 200 - n
\* at -3: its mean is -3 + n/200
YawNearThreshold(n) ==
    Block(Reading("R80711", 300, 6, 1, -7), 200)
        \o Block(Reading("R80711", 400, 6, 1, -5), 200)
        \o Block(Reading("R80711", 500, 6, 1, -3), 200 - n)
        \o Block(Reading("R80711", 500, 6, 1, -2), n)
        \o Block(Reading("R80711", 450, 6, 1, 1), 200)
        \o Block(Reading("R80711", 400, 6, 1, 4), 200)
        \o Block(Reading("R80721", 500, 6, 200, 1), 10)

\* the last three with optimal vane positions of -3, -2.96 and -2.94 degrees
YawTables ==
    {YawTable(pA, pD, -1, 200, 0) : pA \in {400, 600}, pD \in {400, 600}}
    \cup {YawTable(400, 400, -2, 200, 0), YawTable(400, 400, -1, 199, 0)}
    \cup {YawTable(400, 400, -1, 200, nE) : nE \in {49, 50}}
    \cup {YawNearThreshold(n) : n \in {0, 8, 12}}

\* rows given the timestamp ts
Stamped(rows, ts) == [i \in 1..Len(rows) |-> [rows[i] EXCEPT !.Date_time = GoodTs(ts, 0)]]

\* wind speeds and directions on and beside the bin edges, in four months:
\* a block of n1 rows at wind speed ws1 and direction wa1, ten rows at 4 m/s,
\* rows at the lowest edges (0 m/s, 0 degrees) and rows outside the ranges
CurveTable(ws1, n1, wa1) ==
    Stamped(Block(Reading("R80711", 300, ws1, wa1, 0), n1), T2014)
        \o Stamped(Block(Reading("R80711", 400, 4, 45, 0), 10), T2014 + 40 * HoursPerDay)
        \o Stamped(Block(Reading("R80721", 0, 0, 0, 0), 2), T2014 + 41 * HoursPerDay)
        \o Stamped(Block(Reading("R80721", 500, 30, 360, 0), 10), T2014 + 100 * HoursPerDay)
        \o Stamped(Block(Reading("R80721", 500, 31, 361, 0), 1), T2014 + 3 * HoursPerDay)
        \o Stamped(Block(Reading("R80721", -10, 5, -1, 0), 1), T2014 + 3 * HoursPerDay)

CurveTables ==
    {CurveTable(ws1, n1, wa1) : ws1 \in {3, 4}, n1 \in {9, 10}, wa1 \in {22, 23, 45, 90}}

BinTables == WakeTables \cup {ExampleWake} \cup YawTables \cup CurveTables

InitBins ==
    /\ openoa = TRUE
    /\ \E sc \in BinTables :
          InitProcess([scada |-> Good(ScadaCols, sc), plant |-> SamplePlant,
                       asset |-> SampleAsset, era5 |-> SampleEra5,
                       merra2 |-> SampleMerra2])

RunSectorAnalysis ==
    /\ \E type \in {"wake_losses", "yaw_misalignment"} : run_analysis(type, Noon)
    /\ Quiet

NextBins ==
    \/ RunSectorAnalysis
    \/ GetPowerCurve
    \/ GetWindRose
    \/ GetScadaSummary
    \/ GetDailyTimeseries

SpecBins == InitBins /\ [][NextBins]_vars

(***************************************************************************)
(* SpecMonths: SCADA rows on the edges of calendar months, each with the   *)
(* power that names its day, against meter readings of three months.       *)
(***************************************************************************)
Jan31 == T2014 + 30 * HoursPerDay
Feb1 == T2014 + 31 * HoursPerDay
Mar2 == T2014 + 60 * HoursPerDay
Jan15NextYear == T2014 + 379 * HoursPerDay

MonthReadings ==
    {ScadaRow(GoodTs(T2014, 0), "R80711", 100, 6),
     ScadaRow(GoodTs(Jan31, 0), "R80711", 200, 6),
     ScadaRow(GoodTs(Feb1, 0), "R80711", 400, 6),
     ScadaRow(GoodTs(Mar2, 0), "R80721", 800, 6),
     ScadaRow(GoodTs(Jan15NextYear, 0), "R80711", 1600, 6),
     ScadaRow(BadTs, "R80711", 3200, 6)}

MonthPlant ==
    <<PlantRow(GoodTs(Jan31 + 23, 0), 100, 5, 1),
      PlantRow(GoodTs(Feb1, 0), 50, 5, 1),
      PlantRow(GoodTs(Jan15NextYear, 0), 10, 5, 1)>>

InitMonths ==
    /\ openoa = TRUE
    /\ \E sc \in SeqsUpTo(MonthReadings, MaxDated) :
          InitProcess([scada |-> Good(ScadaCols, sc), plant |-> Good(PlantCols, MonthPlant),
                       asset |-> SampleAsset, era5 |-> SampleEra5,
                       merra2 |-> SampleMerra2])

RunMonthlyLosses ==
    /\ run_analysis("electrical_losses", Noon)
    /\ Quiet

NextMonths ==
    \/ GetScadaSummary
    \/ GetScadaTimeseries
    \/ RunMonthlyLosses

SpecMonths == InitMonths /\ [][NextMonths]_vars

(***************************************************************************)
(* SpecRace: two callers inside get_cached_data at once, each statement of *)
(* the function a step: the membership test (line 84), the call of the     *)
(* loader and the assignment (line 85), the read of the entry (line 86).   *)
(***************************************************************************)
Callers == {1, 2}
RaceKeys == {"scada", "era5"}

Idle == [pc |-> "idle", key |-> None, loaded |-> Table({}, <<>>), ret |-> NoRef,
         exc |-> NoExc]
\* the entry created empty and filled afterwards
PopulateLater(loaded) == Table(loaded.cols, <<>>)

\* what the assignment of line 85 puts under the key
Populate(loaded) == loaded

Call(p) ==
    /\ tasks[p].pc \in {"idle", "done", "raised"}
    /\ \E key \in RaceKeys : tasks' = [tasks EXCEPT ![p] = [Idle EXCEPT !.pc = "test", !.key = key]]
    /\ UNCHANGED <<files, openoa, cache, heap, loads, last>>

Test(p) ==
    /\ tasks[p].pc = "test"
    /\ tasks' = [tasks EXCEPT ![p].pc =
                    IF cache[tasks[p].key] # NoRef THEN "return" ELSE "load"]
    /\ UNCHANGED <<files, openoa, cache, heap, loads, last>>

Load(p) ==
    /\ tasks[p].pc = "load"
    /\ LET r == LoaderFor(tasks[p].key, files)
       IN  tasks' = [tasks EXCEPT ![p] =
                        IF r.ok THEN [@ EXCEPT !.pc = "store", !.loaded = r.val]
                        ELSE [@ EXCEPT !.pc = "raised", !.exc = r.exc]]
    /\ loads' = [loads EXCEPT ![tasks[p].key] = Bump(@)]
    /\ UNCHANGED <<files, openoa, cache, heap, last>>

Store(p) ==
    /\ tasks[p].pc = "store"
    /\ heap' = Alloc(heap, DfRef(tasks[p].key, p), Populate(tasks[p].loaded))
    /\ cache' = [cache EXCEPT ![tasks[p].key] = DfRef(tasks[p].key, p)]
    /\ tasks' = [tasks EXCEPT ![p].pc = "return"]
    /\ UNCHANGED <<files, openoa, loads, last>>

Return(p) ==
    /\ tasks[p].pc = "return"
    /\ tasks' = [tasks EXCEPT ![p].pc = "done", ![p].ret = cache[tasks[p].key]]
    /\ UNCHANGED <<files, openoa, cache, heap, loads, last>>

InitRace ==
    /\ openoa = TRUE
    /\ \E sc \in {Missing, SampleScada}, er \in {Unreadable, SampleEra5} :
          files = [scada |-> sc, plant |-> SamplePlant, asset |-> SampleAsset, era5 |-> er,
                   merra2 |-> SampleMerra2]
    /\ cache = [k \in Keys |-> NoRef]
    /\ heap = <<>>
    /\ loads = [k \in Keys |-> 0]
    /\ last = NoResponse
    /\ tasks = [p \in Callers |-> Idle]

NextRace ==
    \E p \in Callers :
        \/ Call(p)
        \/ Test(p)
        \/ Load(p)
        \/ Store(p)
        \/ Return(p)

SpecRace == InitRace /\ [][NextRace]_vars

(***************************************************************************)
(* Properties of the cache and of the loaders.                             *)
(***************************************************************************)
Cached(k) == cache[k] # NoRef

\* the column a loader parses as timestamps, and whether it converts to UTC
TimestampColumn(k) ==
    CASE k = "scada" -> "Date_time"
      [] k = "plant" -> "time_utc"
      [] OTHER -> "datetime"

ParsedAsUtc(k) == k \in {"scada", "plant"}

\* the file of a key can be read and parsed by its loader
Loadable(k) ==
    /\ files[k].exists
    /\ files[k].readable
    /\ k = "asset" \/ TimestampColumn(k) \in files[k].cols

\* the first dataset a request asks for whose file cannot be loaded
FirstUnloadable(keys) ==
    LET bad == {i \in 1..Len(keys) : ~Loadable(keys[i])}
    IN  IF bad = {} THEN None
        ELSE keys[CHOOSE i \in bad : \A j \in bad : i <= j]

\* C1: while loaders succeed the loader of a key is invoked only at the first
\* access: a cached key has been loaded exactly once, and no later step
\* invokes its loader again, replaces the stored table or removes it.
C1_LoadOnce ==
    /\ [](\A k \in Keys : Cached(k) => loads[k] = 1)
    /\ [][\A k \in Keys : Cached(k) => /\ cache'[k] = cache[k]
                                       /\ loads'[k] = loads[k]
                                       /\ cache'[k] \in DOMAIN heap']_vars

\* SCADA was fetched by a second and a third request after it was cached
C1_Witness ==
    /\ Cached("scada") /\ Cached("plant") /\ Cached("era5")
    /\ loads["scada"] = 1
    /\ last.op = "electrical_losses"
    /\ last.status = 200

\* C2: under any interleaving of two callers of get_cached_data on one key
\* a loader that succeeds runs at most once per caller, every caller that
\* returns gets a table with exactly the content the loader produced, so all
\* callers get identical content, the cache holds one such table, the one
\* stored last, and no caller reads a missing or partly filled entry.
C2_RaceBenign ==
    /\ \A k \in Keys : LoaderFor(k, files).ok => loads[k] <= Cardinality(Callers)
    /\ \A k \in RaceKeys :
          Cached(k) => /\ cache[k] \in DOMAIN heap
                       /\ heap[cache[k]] = LoaderFor(k, files).val
                       /\ \E p \in Callers : cache[k] = DfRef(k, p)
    /\ \A p \in Callers :
          /\ tasks[p].pc = "return" => Cached(tasks[p].key)
          /\ tasks[p].pc = "done" =>
                /\ tasks[p].ret \in DOMAIN heap
                /\ heap[tasks[p].ret] = LoaderFor(tasks[p].key, files).val
                /\ \A q \in Callers :
                      tasks[q].pc = "done" /\ tasks[q].key = tasks[p].key
                         => heap[tasks[q].ret] = heap[tasks[p].ret]

\* both callers missed the entry, both loaded, and both have returned
C2_Witness ==
    /\ loads["scada"] = 2
    /\ \A p \in Callers : tasks[p].pc = "done" /\ tasks[p].key = "scada"
    /\ Len(heap[tasks[1].ret].rows) > 0

\* C3: no request changes a cached table: every table in the cache has the
\* columns and rows its loader produced from the file.
C3_CachedTablesUnchanged ==
    \A k \in Keys :
        Cached(k) => /\ cache[k] \in DOMAIN heap
                     /\ heap[cache[k]] = LoaderFor(k, files).val

\* the SCADA summary, which adds month and season to its copy, has answered
C3_Witness ==
    /\ last.op = "summary"
    /\ last.status = 200
    /\ Cached("scada")
    /\ Len(heap[cache["scada"]].rows) > 0

\* C4: when the file of a dataset an analysis asks for is missing, the
\* analysis ends without results, what its caller catches is the loader's
\* FileNotFoundError naming the file, and the response carries that message
\* unaltered.
C4_NotFoundSurfaces ==
    (openoa /\ last.op \in AnalysisTypes) =>
        LET k == FirstUnloadable(AnalysisKeys(last.op))
        IN  (k # None /\ ~files[k].exists) =>
               /\ last.body = NoBody
               /\ last.status = 500
               /\ last.exc.type = "FileNotFoundError"
               /\ Len(last.exc.msg) = 3
               /\ last.exc.msg[2] = " file not found: "
               /\ last.exc.msg[3] = PathOf(k)
               /\ last.detail = <<"Analysis failed: ">> \o last.exc.msg
               /\ ~Cached(k)

\* the electrical-loss analysis found the SCADA table and not the meter file
C4_Witness ==
    /\ last.op = "electrical_losses"
    /\ last.status = 500
    /\ Cached("scada")
    /\ ~files["plant"].exists

\* C5: a missing file and a present file that cannot be parsed or lacks the
\* timestamp column end an analysis with different outcomes: the first with
\* the not-found error, the second with a parse or key error, and neither is
\* reported as the other.
NotFoundOutcome(r) ==
    /\ r.exc.type = "FileNotFoundError"
    /\ \E i \in 1..Len(r.detail) : r.detail[i] = " file not found: "

MalformedOutcome(r) ==
    /\ r.exc.type \in {"ParserError", "KeyError"}
    /\ \A i \in 1..Len(r.detail) : r.detail[i] # " file not found: "

C5_MissingVsMalformed ==
    (openoa /\ last.op \in AnalysisTypes) =>
        LET k == FirstUnloadable(AnalysisKeys(last.op))
        IN  /\ (k # None /\ ~files[k].exists) =>
                  NotFoundOutcome(last) /\ ~MalformedOutcome(last)
            /\ (k # None /\ files[k].exists) =>
                  MalformedOutcome(last) /\ ~NotFoundOutcome(last)
            /\ NotFoundOutcome(last) => (k # None /\ ~files[k].exists)

\* an analysis met a reanalysis file that is present and cannot be parsed
C5_Witness ==
    /\ last.op = "aep"
    /\ last.exc.type = "ParserError"
    /\ files["era5"].exists
    /\ Cached("scada")

\* C6: a timestamp that does not parse never aborts a load: the table has one
\* row per row of the file, a row whose timestamp text is no timestamp holds
\* NaT, and every other row holds the timestamp parsed from its text.
C6_CoercedTimestamps ==
    \A k \in {"scada", "plant", "era5", "merra2"} :
        LET col == TimestampColumn(k)
            f == files[k]
        IN  /\ (Loadable(k) /\ loads[k] > 0) => Cached(k)
            /\ Cached(k) =>
                  LET rows == heap[cache[k]].rows
                  IN  /\ Len(rows) = Len(f.rows)
                      /\ \A i \in 1..Len(f.rows) :
                            LET cell == f.rows[i][col]
                            IN  /\ ~cell.valid => rows[i][col] = NaT
                                /\ cell.valid =>
                                      /\ rows[i][col] # NaT
                                      /\ rows[i][col] =
                                            IF ParsedAsUtc(k) THEN cell.t - cell.off
                                            ELSE cell.t
                                /\ \A c \in f.cols \ {col} : rows[i][c] = f.rows[i][c]

\* a SCADA file with a row that parsed and a row that did not has been loaded
C6_Witness ==
    /\ Cached("scada")
    /\ \E i, j \in 1..Len(heap[cache["scada"]].rows) :
          /\ heap[cache["scada"]].rows[i].Date_time = NaT
          /\ heap[cache["scada"]].rows[j].Date_time # NaT
          /\ files["scada"].rows[j].Date_time.off # 0

(***************************************************************************)
(* Properties of the energy totals.                                        *)
(***************************************************************************)
Answered(op) == last.op = op /\ last.status = 200

CachedTable(k) == heap[cache[k]]

\* the rows of a table at the positions in S, in the order of the table
Pick(t, S) ==
    Table(t.cols, KeepRows(t.rows, [i \in 1..Len(t.rows) |-> i \in S]))

\* sum of P_avg x 10/60 kWh over the rows at positions S, in kW-minutes
EnergyOfPower(t, S) == SumCol(Pick(t, S), "P_avg") * IntervalMin

AllRows(t) == 1..Len(t.rows)

\* C7: every energy total derived from SCADA power is the sum of P_avg times
\* 10/60 hours: the electrical-loss turbine energy, the AEP total, the data
\* overview total, the SCADA summary totals, the gross energy per turbine
\* and the EYA gap turbine energy.
C7_EnergyFromPower ==
    LET scada == CachedTable("scada")
        Of(turbine) == {i \in AllRows(scada) : scada.rows[i].Wind_turbine_name = turbine}
        Normal == {i \in AllRows(scada) : NormalOperation(scada.rows[i])}
    IN  /\ Answered("electrical_losses") =>
              last.body.turbine_energy_kwmin = EnergyOfPower(scada, AllRows(scada))
        /\ Answered("eya_gap") =>
              last.body.turbine_energy_kwmin = EnergyOfPower(scada, AllRows(scada))
        /\ Answered("turbine_gross_energy") =>
              \A t \in DOMAIN last.body.turbine_results :
                 last.body.turbine_results[t].operational_energy_kwmin
                    = EnergyOfPower(scada, Of(t) \cap Normal)
        /\ Answered("aep") =>
              last.body.total_energy_kwmin = EnergyOfPower(scada, AllRows(scada))
        /\ Answered("overview") =>
              last.body.total_energy_kwmin = EnergyOfPower(scada, AllRows(scada))
        /\ Answered("summary") =>
              /\ last.body.total_energy_kwmin = EnergyOfPower(scada, AllRows(scada))
              /\ \A t \in DOMAIN last.body.turbine_energy_kwmin :
                    last.body.turbine_energy_kwmin[t] = EnergyOfPower(scada, Of(t))

\* the totals that do follow the rule: electrical losses, gross energy and
\* the EYA gap
C7_ConsistentTotals ==
    LET scada == CachedTable("scada")
        Of(turbine) == {i \in AllRows(scada) : scada.rows[i].Wind_turbine_name = turbine}
        Normal == {i \in AllRows(scada) : NormalOperation(scada.rows[i])}
    IN  /\ (Answered("electrical_losses") \/ Answered("eya_gap")) =>
              last.body.turbine_energy_kwmin = EnergyOfPower(scada, AllRows(scada))
        /\ Answered("turbine_gross_energy") =>
              \A t \in DOMAIN last.body.turbine_results :
                 last.body.turbine_results[t].operational_energy_kwmin
                    = EnergyOfPower(scada, Of(t) \cap Normal)

\* powers 100, 200 and 300 kW: the AEP analysis reports 600 kWh, not 100 kWh
C7_Witness ==
    /\ Answered("aep")
    /\ Column(CachedTable("scada"), "P_avg") = <<100, 200, 300>>
    /\ last.body.total_energy_kwmin = 600 * MinPerHour
    /\ EnergyOfPower(CachedTable("scada"), AllRows(CachedTable("scada"))) = 100 * MinPerHour

\* C8: the energy total is additive over the rows: for every split of the
\* SCADA table in two disjoint parts, the totals of the parts add up to the
\* total the electrical-loss analysis reports for the whole table.
C8_EnergyAdditive ==
    Answered("electrical_losses") =>
        LET scada == CachedTable("scada")
        IN  \A S \in SUBSET AllRows(scada) :
               TurbineEnergy(Pick(scada, S)) + TurbineEnergy(Pick(scada, AllRows(scada) \ S))
                  = last.body.turbine_energy_kwmin

\* a table of three rows with different powers was totalled
C8_Witness ==
    /\ Answered("electrical_losses")
    /\ Column(CachedTable("scada"), "P_avg") = <<100, 200, 300>>
    /\ last.body.turbine_energy_kwmin = 100 * MinPerHour

\* C9: the absolute electrical loss is turbine energy minus meter energy for
\* every input, and the percentage is loss / turbine energy x 100 when the
\* turbine energy is positive and 0 otherwise.
C9_LossIsDifference ==
    Answered("electrical_losses") =>
        LET turbine == EnergyOfPower(CachedTable("scada"), AllRows(CachedTable("scada")))
            meter == SumCol(CachedTable("plant"), "net_energy_kwh") * MinPerHour
        IN  /\ last.body.electrical_loss_kwmin = turbine - meter
            /\ last.body.total_loss_percent =
                  IF turbine > 0 THEN RoundDiv((turbine - meter) * 100 * 100, turbine)
                  ELSE 0

\* what does hold: the difference when the turbine energy is positive, and
\* a loss of 0 with 0 percent otherwise
C9_LossWhenPositive ==
    Answered("electrical_losses") =>
        LET turbine == EnergyOfPower(CachedTable("scada"), AllRows(CachedTable("scada")))
            meter == SumCol(CachedTable("plant"), "net_energy_kwh") * MinPerHour
        IN  /\ turbine > 0 =>
                  /\ last.body.electrical_loss_kwmin = turbine - meter
                  /\ last.body.total_loss_percent =
                        RoundDiv((turbine - meter) * 100 * 100, turbine)
            /\ turbine <= 0 =>
                  /\ last.body.electrical_loss_kwmin = 0
                  /\ last.body.total_loss_percent = 0

\* no turbine energy and 100 kWh on the meter: the loss reported is 0
C9_Witness ==
    /\ Answered("electrical_losses")
    /\ last.body.turbine_energy_kwmin <= 0
    /\ last.body.meter_energy_kwmin = 100 * MinPerHour
    /\ last.body.electrical_loss_kwmin = 0

(***************************************************************************)
(* Properties of the long-term correction.                                 *)
(***************************************************************************)
\* the reanalysis rows with op_start <= datetime <= op_end, bounds included
OperationalRows(scada, era5) ==
    LET stamps == {scada.rows[i].Date_time : i \in AllRows(scada)} \ {NaT}
    IN  {i \in AllRows(era5) :
            /\ era5.rows[i].datetime # NaT
            /\ \E a \in stamps : a <= era5.rows[i].datetime
            /\ \E b \in stamps : era5.rows[i].datetime <= b}

SameMean(a, b) == (IsNaN(a) /\ IsNaN(b)) \/ RatEq(a, b)

\* C10: the correction factor is (long-term mean / operational mean) ** 2.5,
\* the operational mean taken over exactly the reanalysis rows inside the
\* operational window, bounds included; it is exactly 1 when the two means
\* are equal, when the window holds no row (the operational mean is then the
\* long-term mean), and when the operational mean is zero or not a number;
\* and computing it never divides by zero.
C10_CorrectionFactor ==
    /\ last.op \in {"aep", "monte_carlo_aep", "turbine_gross_energy"} =>
          last.exc.type # "ZeroDivisionError"
    /\ (last.op \in {"aep", "monte_carlo_aep", "turbine_gross_energy"} /\ last.status = 200) =>
          LET scada == CachedTable("scada")
              era5 == CachedTable("era5")
              W == OperationalRows(scada, era5)
              ltm == Rat(SumCol(era5, "ws_100m"), Len(era5.rows))
              op == IF W = {} THEN ltm
                    ELSE Rat(SumCol(Pick(era5, W), "ws_100m"), Cardinality(W))
              ratio == LET n == ltm.num * op.den
                           d == ltm.den * op.num
                       IN  Rat(n \div Gcd(n, d), d \div Gcd(n, d))
              factor == last.body.ltm_correction_factor
          IN  /\ last.body.op_rows = Cardinality(W)
              /\ SameMean(last.body.op_period_ws, op)
              /\ SameMean(last.body.ltm_ws, ltm)
              /\ (IsNaN(op) \/ op.num <= 0) => factor = Rat(1, 1)
              /\ W = {} => factor = Rat(1, 1)
              /\ RatEq(ltm, op) => factor = Rat(1, 1)
              /\ (~IsNaN(op) /\ op.num > 0) =>
                    factor = Rat(Pow5(ratio.num), Pow5(ratio.den))

\* rows inside the window whose mean wind speed is zero: the factor is 1
C10_Witness ==
    /\ Answered("turbine_gross_energy")
    /\ last.body.op_rows > 0
    /\ last.body.op_period_ws.num = 0
    /\ last.body.ltm_ws.num > 0
    /\ last.body.ltm_correction_factor = Rat(1, 1)

\* a / b < c / d for positive denominators, by continued fractions: the
\* integer parts decide, and equal integer parts leave the remainders
RECURSIVE FracLess(_, _, _, _)
FracLess(a, b, c, d) ==
    IF a \div b # c \div d THEN a \div b < c \div d
    ELSE IF c % d = 0 THEN FALSE
    ELSE IF a % b = 0 THEN TRUE
    ELSE FracLess(d, c % d, b, a % b)

\* the operational means the monotonicity is tried on
TrialMeans == {Rat(n, d) : n \in 1..7, d \in 1..2}

AboveOne(sq) == sq.num > sq.den

CorrectedAnalysis ==
    /\ last.op \in {"aep", "monte_carlo_aep", "turbine_gross_energy"}
    /\ last.status = 200

\* C11 as stated: the factor exceeds 1 if and only if the long-term mean
\* exceeds the operational mean, whatever the operational mean is, and an
\* operational mean of 6.0 with a long-term mean of 6.5 gives a factor that
\* rounds to 1.196 (its square lies between 1.1955^2 and 1.1965^2, so below
\* 1.44).
C11_AboveOneIffLongTermHigher ==
    CorrectedAnalysis =>
        /\ AboveOne(last.body.ltm_correction_factor)
              <=> RatGt(last.body.ltm_ws, last.body.op_period_ws)
        /\ (RatEq(last.body.op_period_ws, Rat(6, 1)) /\ RatEq(last.body.ltm_ws, Rat(13, 2))) =>
              last.body.ltm_correction_factor.num * 100
                  < 144 * last.body.ltm_correction_factor.den

\* C11: for a positive operational mean the factor exceeds 1 if and only if
\* the long-term mean exceeds the operational mean, and the factor strictly
\* increases with the ratio long-term / operational; an operational mean of
\* 6.0 with a long-term mean of 6.5 gives (13/12) ** 2.5, about 1.2215 (its
\* square is 371293 / 248832); with an operational mean of zero the factor
\* is 1 although the long-term mean is higher.
C11_FactorFollowsRatio ==
    CorrectedAnalysis =>
        LET ltm == last.body.ltm_ws
            op == last.body.op_period_ws
            sq == last.body.ltm_correction_factor
        IN  /\ Positive(op) => (AboveOne(sq) <=> RatGt(ltm, op))
            /\ (~IsNaN(op) /\ op.num <= 0) => sq = Rat(1, 1)
            /\ Positive(ltm) =>
                  \A a, b \in TrialMeans :
                      RatGt(b, a) =>
                          LET fa == CorrectionFactor(ltm, a).sq
                              fb == CorrectionFactor(ltm, b).sq
                          IN  FracLess(fb.num, fb.den, fa.num, fa.den)
            /\ (Positive(ltm) /\ Positive(op)) =>
                  \A a \in TrialMeans :
                      LET fa == CorrectionFactor(ltm, a).sq
                      IN  /\ RatGt(op, a) => FracLess(sq.num, sq.den, fa.num, fa.den)
                          /\ RatGt(a, op) => FracLess(fa.num, fa.den, sq.num, sq.den)
            /\ (RatEq(op, Rat(6, 1)) /\ RatEq(ltm, Rat(13, 2))) =>
                  sq = Rat(371293, 248832)

\* operational mean 6.0, long-term mean 6.5: the factor is (13/12) ** 2.5
C11_Witness ==
    /\ Answered("aep")
    /\ last.body.op_rows = 1
    /\ last.body.op_period_ws = Rat(6, 1)
    /\ last.body.ltm_ws = Rat(13, 2)
    /\ AboveOne(last.body.ltm_correction_factor)

WakeAnswered == Answered("wake_losses")

WakeEntries ==
    {last.body.direction_dependent_losses[k] :
        k \in 1..Len(last.body.direction_dependent_losses)}

\* the rows of the cached SCADA table whose wind direction falls in the sector
\* starting at d, and the normalized power of each turbine among them
SectorRows(d) ==
    Table(CachedTable("scada").cols,
          KeepRows(CachedTable("scada").rows,
                   [i \in AllRows(CachedTable("scada")) |->
                       CutRight(CachedTable("scada").rows[i].Wa_avg, 0, WakeSectorWidth,
                                360, TRUE) = d]))

\* the one element of a singleton set; a value bound by a set is computed once
The(S) == CHOOSE x \in S : TRUE

SectorNorm(d) ==
    The({[j \in 1..Len(perf) |-> perf[j].normalized_power] :
            perf \in {TurbinePerf(rows) : rows \in {SectorRows(d)}}})

Identical(np) == \A i, j \in 1..Len(np) : RatEq(np[i], np[j])

\* C12: for every sector the wake analysis reports, whatever the signs of the
\* turbines' mean power and mean wind speed, wake_loss_percent (in
\* hundredths of a percent) is at least 0 and below 100 percent, and it is 0
\* exactly when all turbines of the sector have the same normalized power.
C12_WakeLossInRange ==
    WakeAnswered =>
        \A e \in WakeEntries :
            /\ e.wake_loss_percent >= 0
            /\ e.wake_loss_percent < 10000
            /\ e.wake_loss_percent = 0 <=> Identical(SectorNorm(e.direction_center_deg))

\* a reported sector whose loss is above 100 percent: one turbine with a
\* negative mean power beside one with a positive mean power
C12_Witness ==
    /\ WakeAnswered
    /\ \E e \in WakeEntries :
          /\ e.wake_loss_percent > 10000
          /\ \E j \in 1..Len(SectorNorm(e.direction_center_deg)) :
                SectorNorm(e.direction_center_deg)[j].num < 0

\* C13: the wake loss of a reported sector is (max - mean) / max of the
\* turbines' normalized powers P_mean / (Ws_mean^3 + 0.1), as a percentage
\* rounded to two decimals; the normalized powers 10, 8 and 6 give 20.00;
\* when the maximum is not positive the loss is 0; it is never negative.
C13_WakeLossFormula ==
    WakeAnswered =>
        \A e \in WakeEntries :
            \A np \in {SectorNorm(e.direction_center_deg)} :
                \A top \in {m \in {np[j] : j \in 1..Len(np)} :
                                \A j \in 1..Len(np) : ~RatGt(np[j], m)} :
                    \A sum \in {RatSum(np)} :
                        /\ e.wake_loss_percent >= 0
                        /\ top.num <= 0 => e.wake_loss_percent = 0
                        /\ top.num > 0 =>
                              e.wake_loss_percent
                                  = RoundDiv(10000 * (top.num * sum.den * Len(np)
                                                         - sum.num * top.den),
                                             top.num * sum.den * Len(np))
                        /\ np = <<Rat(10, 1), Rat(8, 1), Rat(6, 1)>> =>
                              e.wake_loss_percent = 2000

\* the sector with normalized powers 10, 8 and 6 reported with 20.00 percent
C13_Witness ==
    /\ WakeAnswered
    /\ \E e \in WakeEntries :
          /\ SectorNorm(e.direction_center_deg) = <<Rat(10, 1), Rat(8, 1), Rat(6, 1)>>
          /\ e.wake_loss_percent = 2000

\* a reported sector whose turbines all have a negative normalized power
C13_WitnessNonPositive ==
    /\ WakeAnswered
    /\ \E e \in WakeEntries :
          /\ \A j \in 1..Len(SectorNorm(e.direction_center_deg)) :
                SectorNorm(e.direction_center_deg)[j].num < 0
          /\ ~Identical(SectorNorm(e.direction_center_deg))
          /\ e.wake_loss_percent = 0

YawAnswered == Answered("yaw_misalignment")

YawResults == {last.body.turbine_results[k] : k \in 1..Len(last.body.turbine_results)}

\* the rows of a turbine in the cached SCADA table with power above 100 and
\* wind speed from 5 to 10
YawSamples(turbine) ==
    {i \in AllRows(CachedTable("scada")) :
        /\ CachedTable("scada").rows[i].Wind_turbine_name = turbine
        /\ CachedTable("scada").rows[i].P_avg > 100
        /\ CachedTable("scada").rows[i].Ws_avg >= 5
        /\ CachedTable("scada").rows[i].Ws_avg <= 10}

\* a result entry saying that the turbine was not analysed
ReportedNotAnalyzed(turbine) ==
    \E r \in YawResults : r.turbine_id = turbine /\ r.recommendation.text = "not analyzed"

\* C14 as stated: a turbine with fewer than 1000 samples in the range gets no
\* misalignment estimate and the result reports it as not analysed.
C14_SkippedTurbineReported ==
    YawAnswered =>
        \A turbine \in Turbines(CachedTable("scada")) :
            Cardinality(YawSamples(turbine)) < YawMinSamples =>
                /\ \A r \in YawResults :
                      r.turbine_id = turbine => r.recommendation.text = "not analyzed"
                /\ ReportedNotAnalyzed(turbine)

\* what the code does for such a turbine: no entry at all, the other entries
\* and the counts still produced
C14_SkippedTurbineAbsent ==
    YawAnswered =>
        /\ \A turbine \in Turbines(CachedTable("scada")) :
              Cardinality(YawSamples(turbine)) < YawMinSamples =>
                  \A r \in YawResults : r.turbine_id # turbine
        /\ \A r \in YawResults : Cardinality(YawSamples(r.turbine_id)) >= YawMinSamples
        /\ last.body.turbines_analyzed = Cardinality(YawResults)

\* one turbine analysed, the other, with ten samples, absent from the result
C14_Witness ==
    /\ YawAnswered
    /\ "R80721" \in Turbines(CachedTable("scada"))
    /\ Cardinality(YawSamples("R80721")) < YawMinSamples
    /\ \E r \in YawResults : r.turbine_id = "R80711"
    /\ ~ReportedNotAnalyzed("R80721")

\* the vane bin (its left edge) of a row, and the bins of a turbine's samples
\* holding 50 rows or more
VaneBinOf(i) == CutRight(CachedTable("scada").rows[i].Va_avg, -30, VaneBinWidth, 30, FALSE)

InVaneBin(turbine, b) == {i \in YawSamples(turbine) : VaneBinOf(i) = b}

SurvivingBins(turbine) ==
    {b \in {VaneBinOf(i) : i \in YawSamples(turbine)} \ {NaN} :
        Cardinality(InVaneBin(turbine, b)) >= VaneMinCount}

MeanOver(S, col) == Reduced(Rat(SumCol(Pick(CachedTable("scada"), S), col), Cardinality(S)))

BinNorm(turbine, b) ==
    NormalizedPower(MeanOver(InVaneBin(turbine, b), "P_avg"),
                    MeanOver(InVaneBin(turbine, b), "Ws_avg"))

\* C15: the optimal vane position of an analysed turbine is the mean vane
\* angle of a surviving bin (50 rows or more) whose normalized power is the
\* maximum over the surviving bins, the yaw misalignment is its negation, and
\* a recommendation to adjust says "clockwise" exactly when the misalignment
\* is positive and "counter-clockwise" exactly when it is negative.
C15_MisalignmentIsNegatedOptimum ==
    YawAnswered =>
        \A r \in YawResults :
            /\ \E b \in SurvivingBins(r.turbine_id) :
                  /\ \A c \in SurvivingBins(r.turbine_id) :
                        ~RatGt(BinNorm(r.turbine_id, c), BinNorm(r.turbine_id, b))
                  /\ r.optimal_vane_position_deg
                        = RoundDiv(10 * MeanOver(InVaneBin(r.turbine_id, b), "Va_avg").num,
                                   MeanOver(InVaneBin(r.turbine_id, b), "Va_avg").den)
            /\ r.yaw_misalignment_deg = -r.optimal_vane_position_deg
            /\ r.recommendation.text = "Adjust yaw offset" =>
                  /\ r.recommendation.direction = "clockwise" <=> r.yaw_misalignment_deg > 0
                  /\ r.recommendation.direction = "counter-clockwise"
                        <=> r.yaw_misalignment_deg < 0

\* a turbine whose best surviving bin lies at a vane angle of -4 degrees: the
\* misalignment is +4.0 and the advice is clockwise
C15_Witness ==
    /\ YawAnswered
    /\ \E r \in YawResults :
          /\ r.optimal_vane_position_deg = -40
          /\ r.yaw_misalignment_deg = 40
          /\ r.recommendation.direction = "clockwise"

\* a bin of 49 rows with the highest power of all, left out of the choice
C15_WitnessSmallBin ==
    /\ YawAnswered
    /\ \E r \in YawResults :
          /\ Cardinality(InVaneBin(r.turbine_id, 6)) = 49
          /\ r.optimal_vane_position_deg # 70

\* a misalignment of -4.0: counter-clockwise
C15_WitnessCounterClockwise ==
    /\ YawAnswered
    /\ \E r \in YawResults :
          r.yaw_misalignment_deg = -40 /\ r.recommendation.direction = "counter-clockwise"

Waterfall == last.body.waterfall

\* C16: the waterfall of the EYA gap analysis is a running decomposition: the
\* first entry's cumulative is its value, the cumulative of every following
\* loss or delta entry is the previous cumulative plus its own value, and
\* the cumulative of a subtotal or end entry is the running total reached by
\* the entries before it.
C16_RunningDecomposition ==
    (Answered("eya_gap") /\ Waterfall[8].value # NaN) =>
        /\ Waterfall[1].cumulative = Waterfall[1].value
        /\ \A k \in 2..Len(Waterfall) :
              /\ Waterfall[k].type \in {"loss", "delta"} =>
                    Waterfall[k].cumulative = Waterfall[k - 1].cumulative + Waterfall[k].value
              /\ Waterfall[k].type \in {"subtotal", "end"} =>
                    Waterfall[k].cumulative = Waterfall[k - 1].cumulative

\* what the code returns: a running total for the first two entries only, a
\* cumulative of 0 for the other losses and for the gap, and the subtotal and
\* the end carrying their own value
C16_CumulativeAsReturned ==
    (Answered("eya_gap") /\ Waterfall[8].value # NaN) =>
        /\ Waterfall[1].cumulative = Waterfall[1].value
        /\ Waterfall[2].cumulative = Waterfall[1].cumulative + Waterfall[2].value
        /\ \A k \in {3, 4, 5, 7} : Waterfall[k].cumulative = 0 /\ Waterfall[k].value # 0
        /\ \A k \in {6, 8} : Waterfall[k].cumulative = Waterfall[k].value
        /\ Waterfall[7].value = Waterfall[8].value - Waterfall[6].value

\* an answered gap analysis: the availability entry follows a running total
\* of 20.24 GWh with a value of -0.66 GWh and a cumulative of 0
C16_Witness ==
    /\ Answered("eya_gap")
    /\ Waterfall[8].value # NaN
    /\ Waterfall[2].cumulative = 2024
    /\ Waterfall[3].value = -66
    /\ Waterfall[3].cumulative = 0

Scada == CachedTable("scada")

\* the bucket [lo + k * width, lo + (k + 1) * width) holding x, named by its
\* lower bound; the last bucket also holds hi; NaN outside [lo, hi]
CutLeft(x, lo, width, hi) ==
    IF x < lo \/ x > hi THEN NaN
    ELSE IF x = hi THEN hi - width
    ELSE lo + ((x - lo) \div width) * width

\* the rows the wind rose keeps: direction from 0 to 360, wind speed not negative
RoseRows ==
    {i \in AllRows(Scada) :
        /\ Scada.rows[i].Wa_avg >= 0
        /\ Scada.rows[i].Wa_avg <= 360
        /\ Scada.rows[i].Ws_avg >= 0}

\* the rows the power curve keeps: power not negative, wind speed from 0 to 30
CurveRows ==
    {i \in AllRows(Scada) :
        /\ Scada.rows[i].P_avg >= 0
        /\ Scada.rows[i].Ws_avg >= 0
        /\ Scada.rows[i].Ws_avg <= 30}

RoseEntries == {last.body.data[k] : k \in 1..Len(last.body.data)}

\* C17: buckets are [lo, hi): a value on an interior edge is counted in the
\* bucket that starts there, the lowest edge in the first bucket, and only
\* the last bucket holds its upper bound.  Stated on the counts returned:
\* every wake sector and every wind-rose sector holds the rows of its
\* half-open interval, and the power curve holds the half-open wind-speed
\* buckets of ten rows or more.
C17_HalfOpenBuckets ==
    /\ WakeAnswered =>
          \A e \in WakeEntries :
              e.sample_count
                  = Cardinality({i \in AllRows(Scada) :
                                    CutLeft(Scada.rows[i].Wa_avg, 0, WakeSectorWidth, 360)
                                        = e.direction_center_deg})
    /\ Answered("wind_rose") =>
          \A e \in RoseEntries :
              e.count = Cardinality({i \in RoseRows :
                                        CutLeft(2 * Scada.rows[i].Wa_avg, 0, 45, 720) \div 2
                                            = e.direction})
    /\ Answered("power_curve") =>
          Len(last.body.measured_curve)
              = Cardinality({b \in {CutLeft(2 * Scada.rows[i].Ws_avg, 0, 1, 60) : i \in CurveRows} :
                                Cardinality({i \in CurveRows :
                                                CutLeft(2 * Scada.rows[i].Ws_avg, 0, 1, 60) = b})
                                    >= CurveMinCount})

\* what the code does: pd.cut buckets are (lo, hi], so a value on an interior
\* edge is counted in the bucket that ends there; with include_lowest (wake
\* and wind-rose sectors) the first bucket also holds the lowest edge, and
\* without it (power curve, vane bins) the lowest edge is in no bucket
C17_RightClosedBuckets ==
    /\ WakeAnswered =>
          \A e \in WakeEntries :
              e.sample_count
                  = Cardinality({i \in AllRows(Scada) :
                                    /\ Scada.rows[i].Wa_avg >= 0
                                    /\ \/ Scada.rows[i].Wa_avg = 0 /\ e.direction_center_deg = 0
                                       \/ /\ Scada.rows[i].Wa_avg > e.direction_center_deg
                                          /\ Scada.rows[i].Wa_avg
                                                <= e.direction_center_deg + WakeSectorWidth})
    /\ Answered("power_curve") =>
          \A k \in 1..Len(last.body.measured_curve) :
              \E b \in 0..59 :
                  /\ 2 * last.body.measured_curve[k].wind_speed > 100 * b
                  /\ 2 * last.body.measured_curve[k].wind_speed <= 100 * (b + 1)
                  /\ last.body.measured_curve[k].count
                        = Cardinality({i \in CurveRows :
                                          /\ 2 * Scada.rows[i].Ws_avg > b
                                          /\ 2 * Scada.rows[i].Ws_avg <= b + 1})

\* one hundred rows with a wind direction of exactly 30 degrees, reported in
\* the sector starting at 0 degrees
C17_Witness ==
    /\ WakeAnswered
    /\ Cardinality({i \in AllRows(Scada) : Scada.rows[i].Wa_avg = 30}) = 100
    /\ \E e \in WakeEntries : e.direction_center_deg = 0 /\ e.sample_count = 100

\* the wind-speed bucket of a row of the power curve, the direction sector of
\* a row of the wind rose (both in halves) and the wake sector of a row
SpeedBucket(i) == CutRight(2 * Scada.rows[i].Ws_avg, 0, 1, 60, FALSE)
RoseSector(i) == CutRight(2 * Scada.rows[i].Wa_avg, 0, 45, 720, TRUE)
WakeSectorOf(i) == CutRight(Scada.rows[i].Wa_avg, 0, WakeSectorWidth, 360, TRUE)

\* the number of rows of the power curve in each wind-speed bucket that holds
\* a row
BucketSizes ==
    LET rows == CurveRows
    IN  [b \in {SpeedBucket(i) : i \in rows} |->
            Cardinality({j \in rows : SpeedBucket(j) = b})]

\* the rows of the power curve falling in a bucket of ten rows or more
CurveCounted ==
    UNION {{i \in CurveRows : SpeedBucket(i) # NaN /\ sizes[SpeedBucket(i)] >= CurveMinCount} :
              sizes \in {BucketSizes}}

CurveCounts == [k \in 1..Len(last.body.measured_curve) |-> last.body.measured_curve[k].count]
RoseCounts == [k \in 1..Len(last.body.data) |-> last.body.data[k].count]
WakeCounts ==
    [k \in 1..Len(last.body.direction_dependent_losses) |->
        last.body.direction_dependent_losses[k].sample_count]

\* C18: every row is counted in at most one emitted bucket and a row outside
\* every interval in none: the counts of the power curve add up to the number
\* of kept rows lying in a bucket of ten rows or more, those of the wind rose
\* to the number of kept rows lying in a sector, those of the wake sectors to
\* the number of rows lying in a reported sector; so the sum never exceeds
\* the reported total (total_data_points, total_observations; the table for
\* the wake analysis), and it equals the total exactly when no kept row lies
\* outside every interval or in a bucket below the minimum count.
C18_CountsAddUp ==
    /\ Answered("power_curve") =>
          /\ last.body.total_data_points = Cardinality(CurveRows)
          /\ SumSeq(CurveCounts) = Cardinality(CurveCounted)
          /\ SumSeq(CurveCounts) <= last.body.total_data_points
          /\ SumSeq(CurveCounts) = last.body.total_data_points <=> CurveCounted = CurveRows
    /\ Answered("wind_rose") =>
          /\ last.body.total_observations = Cardinality(RoseRows)
          /\ SumSeq(RoseCounts) = Cardinality({i \in RoseRows : RoseSector(i) # NaN})
          /\ SumSeq(RoseCounts) <= last.body.total_observations
          /\ \A e \in RoseEntries :
                e.count = Cardinality({i \in RoseRows : RoseSector(i) \div 2 = e.direction})
    /\ WakeAnswered =>
          /\ SumSeq(WakeCounts)
                = Cardinality(LET reported == {e.direction_center_deg : e \in WakeEntries}
                              IN  {i \in AllRows(Scada) : WakeSectorOf(i) \in reported})
          /\ SumSeq(WakeCounts) <= Len(Scada.rows)
          /\ \A e \in WakeEntries :
                e.sample_count
                    = Cardinality({i \in AllRows(Scada) :
                                      WakeSectorOf(i) = e.direction_center_deg})

\* a power curve whose counts fall short of the total: two kept rows at a
\* wind speed of 0 lie in no bucket and nine rows lie in a bucket of their own
C18_Witness ==
    /\ Answered("power_curve")
    /\ NaN \in DOMAIN BucketSizes
    /\ \E b \in DOMAIN BucketSizes : b # NaN /\ BucketSizes[b] = 9
    /\ SumSeq(CurveCounts) = last.body.total_data_points - 11

\* a power curve whose counts add up to the total
C18_WitnessEqual ==
    /\ Answered("power_curve")
    /\ last.body.total_data_points > 0
    /\ SumSeq(CurveCounts) = last.body.total_data_points

\* C19: a bucket below its minimum count is left out and the rest is still
\* returned: the measured curve holds exactly the wind-speed buckets of ten
\* rows or more, with their counts, in ascending order; every vane bin of a
\* turbine's vane_power_curve has 50 rows or more; every wake sector
\* reported has 100 rows or more.
C19_MinimumCounts ==
    /\ Answered("power_curve") =>
          \A sizes \in {BucketSizes} :
              \A big \in {Ascending({b \in DOMAIN sizes \ {NaN} : sizes[b] >= CurveMinCount})} :
                  /\ \A k \in 1..Len(CurveCounts) : CurveCounts[k] >= CurveMinCount
                  /\ CurveCounts = [k \in 1..Len(big) |-> sizes[big[k]]]
    /\ YawAnswered =>
          \A r \in YawResults :
              \A k \in 1..Len(r.vane_power_curve) :
                  /\ r.vane_power_curve[k].sample_count >= VaneMinCount
                  /\ r.vane_power_curve[k].sample_count
                        = Cardinality(InVaneBin(r.turbine_id,
                                                CutRight(r.vane_power_curve[k].vane_angle_deg,
                                                         -300, 10 * VaneBinWidth, 300, FALSE)
                                                    \div 10))
    /\ WakeAnswered =>
          \A e \in WakeEntries : e.sample_count >= WakeMinSamples

\* a measured curve without the bucket that holds nine rows, the buckets of
\* ten rows present
C19_Witness ==
    /\ Answered("power_curve")
    /\ \E b \in DOMAIN BucketSizes : b # NaN /\ BucketSizes[b] = 9
    /\ Len(CurveCounts) = 2
    /\ \A k \in 1..Len(CurveCounts) : CurveCounts[k] = 10

\* a vane bin of 49 rows left out of a curve of five bins
C19_WitnessVane ==
    /\ YawAnswered
    /\ \E r \in YawResults :
          /\ Cardinality(InVaneBin(r.turbine_id, 6)) = 49
          /\ Len(r.vane_power_curve) = 5

\* a sector of 99 rows left out, another sector reported
C19_WitnessWake ==
    /\ WakeAnswered
    /\ Cardinality({i \in AllRows(Scada) : WakeSectorOf(i) = 0}) = 99
    /\ \E e \in WakeEntries : e.direction_center_deg = 180

\* the order of two texts of equal length written in digits, as tuples of
\* their numbers
LexLess(a, b) ==
    \E i \in 1..Len(a) : a[i] < b[i] /\ \A j \in 1..(i - 1) : a[j] = b[j]

\* a sequence of numbers, and a sequence of digit texts, without a step that
\* stays or goes down
Rising(keys) == \A k \in 1..(Len(keys) - 1) : keys[k] < keys[k + 1]

RisingText(keys) == \A k \in 1..(Len(keys) - 1) : LexLess(keys[k], keys[k + 1])

\* C20: every bucketed sequence returned is in strictly ascending order of
\* its bucket key, so no key appears twice: the timestamps of the time-series
\* points, the months of the monthly rollups, the wind speeds of the
\* power-curve bins, the directions of the wind-rose sectors and of the wake
\* sectors, and the vane angles of each turbine's vane bins.
C20_BucketsAscending ==
    /\ Answered("timeseries") =>
          RisingText([k \in 1..Len(last.body.data) |-> last.body.data[k].timestamp])
    /\ Answered("summary") =>
          RisingText([k \in 1..Len(last.body.monthly_data) |->
                         last.body.monthly_data[k].month])
    /\ Answered("power_curve") =>
          Rising([k \in 1..Len(last.body.measured_curve) |->
                     last.body.measured_curve[k].wind_speed])
    /\ Answered("wind_rose") =>
          Rising([k \in 1..Len(last.body.data) |-> last.body.data[k].direction])
    /\ WakeAnswered =>
          Rising([k \in 1..Len(last.body.direction_dependent_losses) |->
                     last.body.direction_dependent_losses[k].direction_center_deg])
    /\ YawAnswered =>
          \A r \in YawResults :
              Rising([k \in 1..Len(r.vane_power_curve) |->
                         r.vane_power_curve[k].vane_angle_deg])

\* daily points of a table whose rows are not in the order of their
\* timestamps, the days without rows among them
C20_Witness ==
    /\ Answered("timeseries")
    /\ Len(last.body.data) > 3
    /\ Len(last.body.data)
          > Cardinality({ts \div HoursPerDay : ts \in Stamps(Scada, "Date_time")})
    /\ \E i, j \in AllRows(Scada) :
          i < j /\ Scada.rows[i].Date_time > Scada.rows[j].Date_time

\* three monthly rollups of such a table
C20_WitnessMonthly ==
    /\ Answered("summary")
    /\ Len(last.body.monthly_data) = 3
    /\ \E i, j \in AllRows(Scada) :
          i < j /\ Scada.rows[i].Date_time > Scada.rows[j].Date_time

\* the last three points of a longer series
C20_WitnessLimit ==
    /\ Answered("timeseries")
    /\ Len(last.body.data) = 3
    /\ TsMax(Scada, "Date_time") - TsMin(Scada, "Date_time") > 3 * HoursPerDay

\* several bins, sectors and vane bins returned
C20_WitnessBins ==
    \/ Answered("power_curve") /\ Len(last.body.measured_curve) > 2
    \/ Answered("wind_rose") /\ Len(last.body.data) > 2
    \/ WakeAnswered /\ Len(last.body.direction_dependent_losses) > 1
    \/ YawAnswered /\ \E r \in YawResults : Len(r.vane_power_curve) > 4

\* whether a returned value is None, for values that are numbers otherwise
Absent(v) == ToString(v) = ToString(None)

\* the calendar year and month of a timestamp
CalMonth(ts) == <<YearOf(ts), MonthOf(ts)>>

\* the rows of a cached table whose timestamp in column col lies in the
\* calendar month ym, and the months of all its rows that have a timestamp
RowsOfMonth(key, col, ym) ==
    {i \in AllRows(CachedTable(key)) :
        /\ CachedTable(key).rows[i][col] # NaT
        /\ CalMonth(CachedTable(key).rows[i][col]) = ym}

MonthsIn(key, col) ==
    {CalMonth(CachedTable(key).rows[i][col]) :
        i \in {j \in AllRows(CachedTable(key)) : CachedTable(key).rows[j][col] # NaT}}

PowerIn(S) == SumCol(Pick(Scada, S), "P_avg")

\* the monthly rollups of the SCADA summary are one per calendar month of the
\* table, each over exactly the rows of that month
SummaryByCalendarMonth ==
    LET md == last.body.monthly_data
    IN  /\ {md[k].month : k \in 1..Len(md)} = MonthsIn("scada", "Date_time")
        /\ \A k \in 1..Len(md) :
              md[k].energy_mwh
                = RoundDiv(PowerIn(RowsOfMonth("scada", "Date_time", md[k].month)), 100)

\* the monthly breakdown of the electrical losses is one entry per calendar
\* month that both tables have, each over exactly the rows of that month
LossesByCalendarMonth ==
    LET mb == last.body.monthly_breakdown
    IN  /\ {mb[k].month : k \in 1..Len(mb)}
              = MonthsIn("scada", "Date_time") \cap MonthsIn("plant", "time_utc")
        /\ \A k \in 1..Len(mb) :
              LET t_energy == PowerIn(RowsOfMonth("scada", "Date_time", mb[k].month))
                                 * IntervalMin
                  m_energy == MeterEnergy(Pick(CachedTable("plant"),
                                               RowsOfMonth("plant", "time_utc", mb[k].month)),
                                          "net_energy_kwh")
              IN  /\ mb[k].turbine_energy_mwh = RoundDiv(t_energy, MinPerHour * 100)
                  /\ mb[k].meter_energy_mwh = RoundDiv(m_energy, MinPerHour * 100)
                  /\ mb[k].loss_mwh = RoundDiv(t_energy - m_energy, MinPerHour * 10)

\* the rows the time series was asked for: of the turbine of the filter
Asked(S) ==
    {i \in S : last.body.turbine_filter \in {None, Scada.rows[i].Wind_turbine_name}}

\* the points of a monthly time series are labelled with the last day of a
\* calendar month, each is over exactly the rows of that month, and a series
\* that no limit of the model (0 or 3) has cut has a point for every month
\* of the table
SeriesByCalendarMonth ==
    LET data == last.body.data
    IN  /\ \A k \in 1..Len(data) :
              LET ts == data[k].timestamp
                  rows == Asked(RowsOfMonth("scada", "Date_time", <<ts[1], ts[2]>>))
              IN  /\ ts[3] = MonthLen(ts[1], ts[2])
                  /\ ts[4] = 0
                  /\ Absent(data[k].power_kw) <=> rows = {}
                  /\ rows # {} =>
                        data[k].power_kw = RoundDiv(10 * PowerIn(rows), Cardinality(rows))
        /\ Len(data) \in {1, 2} \/ Len(data) > 3 =>
              \A i \in Asked({j \in AllRows(Scada) : Scada.rows[j].Date_time # NaT}) :
                  \E k \in 1..Len(data) :
                      <<data[k].timestamp[1], data[k].timestamp[2]>>
                          = CalMonth(Scada.rows[i].Date_time)

C21_WitnessNeighbours ==
    /\ Answered("summary")
    /\ {Scada.rows[i].Date_time : i \in AllRows(Scada)} = {Jan31, Feb1}
    /\ Len(last.body.monthly_data) = 2

\* rows of January 2014 and January 2015 in two points of the monthly series,
\* eleven empty months between them
C21_WitnessYears ==
    /\ Answered("timeseries")
    /\ last.body.resolution = "monthly"
    /\ {Scada.rows[i].Date_time : i \in AllRows(Scada)} = {T2014, Jan15NextYear}
    /\ Len(last.body.data) = 13
    /\ ~Absent(last.body.data[1].power_kw)
    /\ Absent(last.body.data[2].power_kw)

\* the meter reading of 31 January 23:00 set against the SCADA row of
\* 1 January
C21_WitnessLosses ==
    /\ Answered("electrical_losses")
    /\ {Scada.rows[i].Date_time : i \in AllRows(Scada)} = {T2014, Feb1}
    /\ Len(last.body.monthly_breakdown) = 2

EnergyAnalyses == {"aep", "electrical_losses", "turbine_gross_energy", "eya_gap"}

\* C22: with every backing file present an analysis does not raise: it
\* answers with a result, whatever the tables hold.
C22_NoRaiseOnDegenerateInput ==
    last.op \in EnergyAnalyses => last.status = 200 /\ last.exc = NoExc

\* what the analyses do: the electrical-losses analysis always answers, and
\* the other three answer or end in a ZeroDivisionError reported as HTTP 500
C22_DivisionByZeroEscapes ==
    /\ last.op = "electrical_losses" => last.status = 200
    /\ last.op \in EnergyAnalyses /\ last.status # 200 =>
          /\ last.status = 500
          /\ last.exc.type = "ZeroDivisionError"
          /\ last.body = NoBody

\* the EYA gap analysis over a SCADA table of one row (a span of 0 days) and
\* a meter table with energy ends in a ZeroDivisionError
C22_Witness ==
    /\ last.op = "eya_gap"
    /\ Len(Scada.rows) = 1
    /\ Len(CachedTable("plant").rows) = 1
    /\ CachedTable("plant").rows[1].net_energy_kwh > 0
    /\ last.status = 500
    /\ last.exc.type = "ZeroDivisionError"

\* the same analysis over two years of SCADA rows and a meter table whose
\* energies sum to 0
C22_WitnessNoPotential ==
    /\ last.op = "eya_gap"
    /\ Len(Scada.rows) > 1
    /\ MeterEnergy(CachedTable("plant"), "net_energy_kwh") = 0
    /\ last.status = 500

\* the AEP and gross-energy analyses over a SCADA table of one row
C22_WitnessOneRow ==
    /\ last.op \in {"aep", "turbine_gross_energy"}
    /\ Len(Scada.rows) = 1
    /\ last.status = 500

\* an empty SCADA table, on which the gross-energy analysis answers
C22_WitnessEmpty ==
    /\ last.op = "turbine_gross_energy"
    /\ Len(Scada.rows) = 0
    /\ last.status = 200

\* C24: a request for an analysis type that is not known is answered with
\* HTTP 400 and the detail "Unknown analysis type: <type>".
C24_UnknownTypeIs400 ==
    last.op = "bogus" /\ openoa =>
        /\ last.status = 400
        /\ last.detail = <<"Unknown analysis type: ", "bogus">>

\* what the handler answers: the HTTPException of status 400 is raised inside
\* the try block, caught there and answered as HTTP 500 "Analysis failed: ..."
C24_UnknownTypeIs500 ==
    last.op = "bogus" /\ openoa =>
        /\ last.status = 500
        /\ last.detail = <<"Analysis failed: ", "400: Unknown analysis type: ", "bogus">>
        /\ last.exc.type = "HTTPException"
        /\ last.body = NoBody

\* such a request reads no dataset
C24_UnknownTypeReadsNothing ==
    [][last'.op = "bogus" => cache' = cache /\ loads' = loads /\ heap' = heap]_vars

C24_Witness ==
    /\ last.op = "bogus"
    /\ openoa
    /\ last.status = 500
    /\ \A k \in Keys : loads[k] = 0

\* the process before any request: nothing cached, nothing loaded
Cold == [cache |-> [k \in Keys |-> NoRef], heap |-> <<>>, loads |-> [k \in Keys |-> 0]]

\* what an analysis of the given type comes to when it is the first request
\* of a process started on the files
FirstRun(type) == AnalysisRequest(type, Fetch(Cold, AnalysisKeys(type), files)).out

\* C23: the outcome of an analysis depends only on the dataset files and the
\* analysis type: whatever was requested before and whatever is cached, the
\* results (or the exception) are those of a first run on the same files, and
\* beside the results only the timestamp of the response and the execution
\* time taken from the same clock vary.
C23_ResultsDependOnFilesOnly ==
    last.op \in AnalysisTypes /\ openoa =>
        /\ last.body = FirstRun(last.op).body
        /\ last.exc = FirstRun(last.op).exc
        /\ last.status = 200 =>
              last.meta = AnalysisResponse(last.op, last.meta.timestamp,
                                           last.meta.execution_time_seconds)

\* an analysis answered from a warm cache, after a request that loaded a
\* dataset it does not read, at the later reading of the clock
C23_Witness ==
    /\ last.op = "electrical_losses"
    /\ last.status = 200
    /\ last.meta.timestamp = 2
    /\ loads["era5"] = 1
    /\ loads["scada"] = 1
    /\ Len(Scada.rows) > 0

\* the routes that read datasets
DataRoutes ==
    {"info", "overview", "summary", "timeseries", "power_curve", "wind_rose",
     "reanalysis", "availability"}

\* C25: while OPENOA_AVAILABLE is false every data route and run_analysis
\* answers HTTP 503 and no dataset is ever read, so that the cache stays as
\* it was at the start; the root, health and list-analyses routes answer
\* successfully.
C25_UnavailableAnswers503 ==
    ~openoa =>
        /\ last.op \in DataRoutes => last = Unavailable(last.op, <<"OpenOA not available">>)
        /\ last.op \in AnalysisTypes \cup {"bogus"} =>
              last = Unavailable(last.op, <<"OpenOA library not available">>)
        /\ last.op \in {"root", "health", "analyses"} =>
              last.status = 200 /\ last.exc = NoExc
        /\ last.op \in {"root", "health"} => last.body.openoa_available = FALSE
        /\ cache = Cold.cache
        /\ heap = Cold.heap
        /\ loads = Cold.loads

\* an analysis refused although every file is there
C25_Witness ==
    /\ ~openoa
    /\ last.op = "aep"
    /\ last.status = 503
    /\ \A k \in Keys : files[k].exists /\ files[k].readable

\* the health route answering in the same process
C25_WitnessHealth ==
    /\ ~openoa
    /\ last.op = "health"
    /\ last.status = 200

\* what run_analysis would come to for the given type in the current state
RunNow(type) == AnalysisRequest(type, Fetch(St, AnalysisKeys(type), files)).out

\* the ids listed in the response to /api/info or /api/analyses
Advertised == {last.body.analyses[k] : k \in 1..Len(last.body.analyses)}

\* C26: every analysis id advertised by /api/info or /api/analyses is
\* accepted by run_analysis (never refused as an unknown type), the ids "aep"
\* and "monte_carlo_aep" give the same results, and a successful response
\* has status "success" and carries the requested analysis type.
C26_AdvertisedIdsAccepted ==
    /\ last.status = 200 /\ last.op \in {"info", "analyses"} =>
          \A id \in Advertised :
              /\ id \in AnalysisTypes
              /\ RunNow(id).exc.type # "HTTPException"
    /\ RunNow("aep").body = RunNow("monte_carlo_aep").body
    /\ RunNow("aep").exc = RunNow("monte_carlo_aep").exc
    /\ last.op \in AnalysisTypes /\ openoa => last.exc.type # "HTTPException"
    /\ last.op \in AnalysisTypes /\ last.status = 200 =>
          /\ last.meta.status = "success"
          /\ last.meta.analysis_type = last.op
          /\ last.body # NoBody

\* /api/info answered, advertising "monte_carlo_aep", where that analysis
\* answers with results
C26_Witness ==
    /\ last.op = "info"
    /\ last.status = 200
    /\ "monte_carlo_aep" \in Advertised
    /\ RunNow("monte_carlo_aep").exc = NoExc

\* the AEP analysis answered under its second name
C26_WitnessAlias ==
    /\ last.op = "monte_carlo_aep"
    /\ last.status = 200
    /\ last.meta.analysis_type = "monte_carlo_aep"
    /\ last.body = RunNow("aep").body

\* the buckets of the rows of the cached table that the answered time series
\* was asked for
AskedBuckets ==
    {BucketOf(Scada.rows[i].Date_time, FreqOf(last.body.resolution)) :
        i \in Asked({j \in AllRows(Scada) : Scada.rows[j].Date_time # NaT})}

\* the number of buckets from the first of S to the last
SpanOf(S) ==
    IF S = {} THEN 0
    ELSE (CHOOSE b \in S : \A a \in S : a <= b)
            - (CHOOSE b \in S : \A a \in S : b <= a) + 1

\* C27: for every limit >= 0 the time series holds at most limit points,
\* they are the latest limit buckets of the resampled series (all of them
\* when the series has no more than limit) in ascending order of their
\* timestamps, and data_points is the number of points returned.
C27_LatestBuckets ==
    Answered("timeseries") =>
        LET data == last.body.data
            limit == last.meta.limit
            span == SpanOf(AskedBuckets)
            newest == CHOOSE b \in AskedBuckets : \A a \in AskedBuckets : a <= b
        IN  /\ limit >= 0
            /\ Len(data) <= limit
            /\ Len(data) = IF limit < span THEN limit ELSE span
            /\ last.body.data_points = Len(data)
            /\ \A k \in 1..Len(data) :
                  data[k].timestamp
                     = IsoFormat(LabelOf(newest - Len(data) + k,
                                         FreqOf(last.body.resolution)))

\* a limit of 3 cuts a longer series down to its three latest buckets
C27_Witness ==
    /\ Answered("timeseries")
    /\ last.meta.limit = 3
    /\ SpanOf(AskedBuckets) > 3
    /\ Len(last.body.data) = 3
    /\ last.body.data_points = 3

\* a limit of 0 gives no point of a table that has dated rows
C27_WitnessNone ==
    /\ Answered("timeseries")
    /\ last.meta.limit = 0
    /\ SpanOf(AskedBuckets) > 0
    /\ last.body.data = <<>>
    /\ last.body.data_points = 0

\* the default limit leaves a series of 13 months whole
C27_WitnessWhole ==
    /\ Answered("timeseries")
    /\ last.meta.limit = DefaultLimit
    /\ SpanOf(AskedBuckets) = 13
    /\ Len(last.body.data) = 13

\* the turbine results whose recommendation is an adjustment
Adjustments ==
    {k \in 1..Len(last.body.turbine_results) :
        last.body.turbine_results[k].recommendation.text # "No correction needed"}

\* C28: summary.turbines_needing_correction is the number of turbine results
\* whose recommendation is an adjustment, also for misalignments that round
\* to 3.0 at one decimal.
C28_CountMatchesRecommendations ==
    Answered("yaw_misalignment") =>
        last.body.turbines_needing_correction = Cardinality(Adjustments)

\* what is counted: the results whose misalignment as reported, rounded to
\* one decimal, is 3.0 degrees or more either way
C28_CountOfRoundedValues ==
    Answered("yaw_misalignment") =>
        last.body.turbines_needing_correction
            = Cardinality({k \in 1..Len(last.body.turbine_results) :
                 \/ last.body.turbine_results[k].yaw_misalignment_deg >= 30
                 \/ last.body.turbine_results[k].yaw_misalignment_deg <= -30})

\* a misalignment of 2.96 degrees, reported as 3.0: counted as needing
\* correction and recommended "No correction needed"
C28_Witness ==
    /\ Answered("yaw_misalignment")
    /\ Len(last.body.turbine_results) = 1
    /\ last.body.turbine_results[1].yaw_misalignment_deg = 30
    /\ last.body.turbine_results[1].recommendation.text = "No correction needed"
    /\ last.body.turbines_needing_correction = 1

\* a misalignment of exactly 3 degrees: counted and to be adjusted
C28_WitnessAtThreshold ==
    /\ Answered("yaw_misalignment")
    /\ Len(last.body.turbine_results) = 1
    /\ last.body.turbine_results[1].yaw_misalignment_deg = 30
    /\ last.body.turbine_results[1].recommendation.text = "Adjust yaw offset"
    /\ last.body.turbines_needing_correction = 1

\* a misalignment of 2.94 degrees, reported as 2.9: neither
C28_WitnessBelow ==
    /\ Answered("yaw_misalignment")
    /\ Len(last.body.turbine_results) = 1
    /\ last.body.turbine_results[1].yaw_misalignment_deg = 29
    /\ last.body.turbine_results[1].recommendation.text = "No correction needed"
    /\ last.body.turbines_needing_correction = 0

\* the long-term correction in the results of an analysis
CorrectionOf(body) ==
    <<body.op_period_ws, body.ltm_ws, body.ltm_correction_factor>>

\* C29: on the same cached SCADA and ERA5 tables the AEP analysis and the
\* turbine gross-energy analysis report the same operational mean wind
\* speed, the same long-term mean wind speed and the same correction factor.
C29_SameCorrection ==
    /\ Answered("turbine_gross_energy") /\ RunNow("aep").exc = NoExc =>
          CorrectionOf(last.body) = CorrectionOf(RunNow("aep").body)
    /\ (Answered("aep") \/ Answered("monte_carlo_aep"))
          /\ RunNow("turbine_gross_energy").exc = NoExc =>
          CorrectionOf(last.body) = CorrectionOf(RunNow("turbine_gross_energy").body)

\* both analyses answer with an operational mean of 6 m/s, a long-term mean
\* of 6.5 m/s over a row before the operational period, and a factor above 1
C29_Witness ==
    /\ Answered("turbine_gross_energy")
    /\ RunNow("aep").exc = NoExc
    /\ last.body.op_period_ws = Rat(6, 1)
    /\ last.body.ltm_ws = Rat(13, 2)
    /\ AboveOne(last.body.ltm_correction_factor)
    /\ RunNow("aep").body.op_period_ws = Rat(6, 1)

\* no ERA5 row in the operational period: both fall back on the long-term mean
C29_WitnessFallback ==
    /\ Answered("aep")
    /\ RunNow("turbine_gross_energy").exc = NoExc
    /\ last.body.op_rows = 0
    /\ Positive(last.body.ltm_ws)
    /\ last.body.op_period_ws = last.body.ltm_ws
    /\ RunNow("turbine_gross_energy").body.op_rows = 0

\* the datasets a route asks get_cached_data for, in order
RouteKeys(op) ==
    CASE op = "info" -> <<"asset", "scada">>
      [] op = "overview" -> <<"scada", "plant", "asset", "era5", "merra2">>
      [] op \in {"summary", "timeseries", "power_curve", "wind_rose"} -> <<"scada">>
      [] op = "reanalysis" -> <<"era5", "merra2">>
      [] op = "availability" -> <<"plant">>
      [] OTHER -> AnalysisKeys(op)

\* the positions in keys of the datasets that are not cached and whose
\* loader raises
Failing(keys) ==
    {i \in 1..Len(keys) : ~Cached(keys[i]) /\ ~Loadable(keys[i])}

\* the first of the datasets of a route that is not cached and whose loader
\* raises
FirstFailing(op) ==
    RouteKeys(op)[CHOOSE i \in Failing(RouteKeys(op)) :
                     \A j \in Failing(RouteKeys(op)) : i <= j]

\* C30: when the loader passed to get_cached_data raises, nothing is stored
\* for the key, not even an empty entry, and the next call for the key
\* invokes the loader again: a request reaching such a key ends with the
\* loader's exception, leaves the cache without the key and has run the
\* loader once more (loads counts the runs up to MaxLoads).
C30_FailedLoadNotCached ==
    /\ [](\A k \in Keys : ~Loadable(k) =>
              /\ ~LoaderFor(k, files).ok
              /\ ~Cached(k)
              /\ DfRef(k, 0) \notin DOMAIN heap)
    /\ [](openoa /\ last.op # None /\ Failing(RouteKeys(last.op)) # {} =>
              last.exc = LoaderFor(FirstFailing(last.op), files).exc)
    /\ [][last'.exc # NoExc =>
             \A keys \in {RouteKeys(last'.op)} :
                 \A i \in Failing(keys) :
                     (\A j \in Failing(keys) : i <= j) =>
                         /\ cache'[keys[i]] = NoRef
                         /\ loads'[keys[i]] = Bump(loads[keys[i]])]_vars

\* the SCADA file is missing: the loader has run for a second request and
\* raised again, and nothing is cached for the key
C30_Witness ==
    /\ ~files["scada"].exists
    /\ loads["scada"] = 2
    /\ ~Cached("scada")
    /\ last.exc.type = "FileNotFoundError"
    /\ last.status = 500

\* an analysis cached SCADA and failed on ERA5 twice: ERA5 is not cached
C30_WitnessSecondKey ==
    /\ Cached("scada")
    /\ ~Cached("era5")
    /\ loads["era5"] = 2
    /\ last.op = "turbine_gross_energy"
    /\ last.exc = LoaderFor("era5", files).exc

====
